---- MODULE Spec2Model ----
(***************************************************************************)
(* Model of the policy-gated SQL mediator of Kingbase-mcp                  *)
(* (src/database.py): the statement classifier SQLValidator and the access *)
(* mediator KingbaseDatabase.                                              *)
(*                                                                         *)
(* A statement is a sequence of characters (one-character strings), so     *)
(* that upper-casing, trimming, splitting, substring search and the        *)
(* regular expressions of the classifier are computed as the code          *)
(* computes them.                                                          *)
(***************************************************************************)
EXTENDS Integers, Sequences, FiniteSets, TLC

VARIABLES
    security_mode,      \* config.security_mode, fixed for the process
    max_result_rows,    \* config.max_result_rows
    schema_policy,      \* shape of the schema policy: "all", "auto", "list"
    allowed_schemas,    \* config.allowed_schemas (used when the shape is "list")
    pc,                 \* "idle": no call in progress; "done": a call has ended
    op,                 \* the operation last called
    sql,                \* the statement given to the call
    schema,             \* the schema name given to the call
    db,                 \* how the database behaves for each query of the call
    result,             \* the value the call returned
    raised,             \* the error the call raised
    sessions,           \* one event sequence per session opened by the call
    warnings,           \* warnings logged by the call
    call                \* the tool call being handled: name, arguments, file system

vars == <<security_mode, max_result_rows, schema_policy, allowed_schemas,
          pc, op, sql, schema, db, result, raised, sessions, warnings, call>>

config == <<security_mode, max_result_rows, schema_policy, allowed_schemas>>

-----------------------------------------------------------------------------
(* Bounds of the model *)

\* most words after the lead of a classifier statement
MaxTail == 2
\* most words of a statement given to the mediator
MaxWords == 2
\* most rows the database returns for one query
MaxRows == 3

-----------------------------------------------------------------------------
(* Characters and text primitives (Python str methods, re escapes) *)

LowerLetters == <<"a","b","c","d","e","f","g","h","i","j","k","l","m",
                  "n","o","p","q","r","s","t","u","v","w","x","y","z">>
UpperLetters == <<"A","B","C","D","E","F","G","H","I","J","K","L","M",
                  "N","O","P","Q","R","S","T","U","V","W","X","Y","Z">>
Digits == {"0","1","2","3","4","5","6","7","8","9"}

LowerSet == {LowerLetters[i] : i \in 1..26}
UpperSet == {UpperLetters[i] : i \in 1..26}

\* str.upper() on one character
UpperChar(c) ==
    IF c \in LowerSet
    THEN UpperLetters[CHOOSE i \in 1..26 : LowerLetters[i] = c]
    ELSE c

\* str.upper()
Upper(s) == [i \in 1..Len(s) |-> UpperChar(s[i])]

\* str.isspace() on one character; also the class \s of re
IsSpace(c) == c \in {" ", "\t", "\n"}

WordChars == LowerSet \cup UpperSet \cup Digits \cup {"_"}

\* the class \w of re
IsWordChar(c) == c \in WordChars

RECURSIVE SkipSpaces(_, _, _)
\* the first index from i, stepping by step, whose character is not white
\* space; an index outside s when there is none
SkipSpaces(s, i, step) ==
    IF i >= 1 /\ i <= Len(s) /\ IsSpace(s[i]) THEN SkipSpaces(s, i + step, step) ELSE i

\* str.strip()
Strip(s) == SubSeq(s, SkipSpaces(s, 1, 1), SkipSpaces(s, Len(s), -1))

\* s has t at position i
HasAt(s, i, t) ==
    i >= 1 /\ i + Len(t) - 1 <= Len(s) /\ \A k \in 1..Len(t) : s[i + k - 1] = t[k]

\* needle in s (Python substring test)
Contains(needle, s) == \E i \in 1..(Len(s) - Len(needle) + 1) : HasAt(s, i, needle)

\* str.startswith(prefix)
StartsWith(s, prefix) == HasAt(s, 1, prefix)

\* re \b between s[p] and s[p+1] (p = 0 is the start, p = Len(s) the end)
WordBoundary(s, p) ==
    LET before == p >= 1 /\ p <= Len(s) /\ IsWordChar(s[p])
        after  == p + 1 >= 1 /\ p + 1 <= Len(s) /\ IsWordChar(s[p + 1])
    IN  before # after

\* s[i..j] is a non-empty run of characters of class C
SpaceRun(s, i, j) == i <= j /\ \A k \in i..j : IsSpace(s[k])
WordRun(s, i, j) == i <= j /\ \A k \in i..j : IsWordChar(s[k])

\* re.search(r'\bA\s+B\b', s)
SearchTwoWords(a, b, s) ==
    \E i \in 1..Len(s) :
        /\ HasAt(s, i, a)
        /\ WordBoundary(s, i - 1)
        /\ \E j \in (i + Len(a) + 1)..Len(s) :
              /\ SpaceRun(s, i + Len(a), j - 1)
              /\ HasAt(s, j, b)
              /\ WordBoundary(s, j + Len(b) - 1)

\* re.search(r'\bA\s+\w+\s+B\b', s)
SearchWordIdentWord(a, b, s) ==
    \E i \in 1..Len(s) :
        /\ HasAt(s, i, a)
        /\ WordBoundary(s, i - 1)
        /\ \E j \in (i + Len(a) + 1)..Len(s) :
              /\ SpaceRun(s, i + Len(a), j - 1)
              /\ \E k \in (j + 1)..Len(s) :
                    /\ WordRun(s, j, k - 1)
                    /\ \E m \in (k + 1)..Len(s) :
                          /\ SpaceRun(s, k, m - 1)
                          /\ HasAt(s, m, b)
                          /\ WordBoundary(s, m + Len(b) - 1)

-----------------------------------------------------------------------------
(* SQLValidator *)

kwSELECT   == <<"S","E","L","E","C","T">>
kwWITH     == <<"W","I","T","H">>
kwSHOW     == <<"S","H","O","W">>
kwDESCRIBE == <<"D","E","S","C","R","I","B","E">>
kwEXPLAIN  == <<"E","X","P","L","A","I","N">>
kwANALYZE  == <<"A","N","A","L","Y","Z","E">>
kwINSERT   == <<"I","N","S","E","R","T">>
kwUPDATE   == <<"U","P","D","A","T","E">>
kwDELETE   == <<"D","E","L","E","T","E">>
kwDROP     == <<"D","R","O","P">>
kwCREATE   == <<"C","R","E","A","T","E">>
kwALTER    == <<"A","L","T","E","R">>
kwTRUNCATE == <<"T","R","U","N","C","A","T","E">>
kwGRANT    == <<"G","R","A","N","T">>
kwREVOKE   == <<"R","E","V","O","K","E">>
kwTABLE    == <<"T","A","B","L","E">>
kwFROM     == <<"F","R","O","M">>
kwINTO     == <<"I","N","T","O">>
kwSET      == <<"S","E","T">>

READONLY_OPERATIONS == {kwSELECT, kwWITH, kwSHOW, kwDESCRIBE, kwEXPLAIN, kwANALYZE}
WRITE_OPERATIONS == {kwINSERT, kwUPDATE}
DANGEROUS_OPERATIONS ==
    {kwDELETE, kwDROP, kwCREATE, kwALTER, kwTRUNCATE, kwGRANT, kwREVOKE}

SecurityMode == {"READONLY", "LIMITED_WRITE", "FULL_ACCESS"}

RECURSIVE WordEnd(_, _)
\* the last index of the run of non-space characters that starts at i
WordEnd(s, i) ==
    IF i + 1 <= Len(s) /\ ~IsSpace(s[i + 1]) THEN WordEnd(s, i + 1) ELSE i

\* words = sql_upper.split(); words[0] if words else ""
ExtractFirstKeyword(sql_upper) ==
    LET start == SkipSpaces(sql_upper, 1, 1)
    IN  IF start > Len(sql_upper) THEN << >>
        ELSE SubSeq(sql_upper, start, WordEnd(sql_upper, start))

\* dangerous_patterns without the UPDATE ... SET pattern
MatchesDangerousPatternNoUpdate(sql_upper) ==
    \/ SearchTwoWords(kwDROP, kwTABLE, sql_upper)
    \/ SearchTwoWords(kwTRUNCATE, kwTABLE, sql_upper)
    \/ SearchTwoWords(kwDELETE, kwFROM, sql_upper)
    \/ SearchTwoWords(kwINSERT, kwINTO, sql_upper)
    \/ SearchTwoWords(kwCREATE, kwTABLE, sql_upper)
    \/ SearchTwoWords(kwALTER, kwTABLE, sql_upper)

\* the list dangerous_patterns, searched in sequence
MatchesDangerousPattern(sql_upper) ==
    \/ SearchTwoWords(kwDROP, kwTABLE, sql_upper)
    \/ SearchTwoWords(kwTRUNCATE, kwTABLE, sql_upper)
    \/ SearchTwoWords(kwDELETE, kwFROM, sql_upper)
    \/ SearchTwoWords(kwINSERT, kwINTO, sql_upper)
    \/ SearchWordIdentWord(kwUPDATE, kwSET, sql_upper)
    \/ SearchTwoWords(kwCREATE, kwTABLE, sql_upper)
    \/ SearchTwoWords(kwALTER, kwTABLE, sql_upper)

\* _validate_readonly scanning the other read-only statements for the
\* dangerous keywords only
ValidateReadonlyDangerousOnly(first_keyword, sql_upper) ==
    IF first_keyword \notin READONLY_OPERATIONS THEN FALSE
    ELSE IF first_keyword = kwSELECT
         THEN ~MatchesDangerousPattern(sql_upper)
         ELSE ~\E forbidden \in DANGEROUS_OPERATIONS : Contains(forbidden, sql_upper)

\* _validate_readonly letting a statement without a leading keyword through
ValidateReadonlyWithoutKeyword(first_keyword, sql_upper) ==
    IF first_keyword = << >> THEN TRUE
    ELSE IF first_keyword \notin READONLY_OPERATIONS THEN FALSE
    ELSE IF first_keyword = kwSELECT
         THEN ~MatchesDangerousPattern(sql_upper)
         ELSE ~\E forbidden \in WRITE_OPERATIONS \cup DANGEROUS_OPERATIONS :
                  Contains(forbidden, sql_upper)

ValidateReadonly(first_keyword, sql_upper) ==
    IF first_keyword \notin READONLY_OPERATIONS THEN FALSE
    ELSE IF first_keyword = kwSELECT
         THEN ~MatchesDangerousPattern(sql_upper)
         ELSE ~\E forbidden \in WRITE_OPERATIONS \cup DANGEROUS_OPERATIONS :
                  Contains(forbidden, sql_upper)

\* _validate_limited_write allowing the write operations only as leading keyword
ValidateLimitedWriteWritesOnly(first_keyword, sql_upper) ==
    IF first_keyword \notin WRITE_OPERATIONS THEN FALSE
    ELSE ~\E dangerous \in DANGEROUS_OPERATIONS : Contains(dangerous, sql_upper)

\* _validate_limited_write without the scan of the text
ValidateLimitedWriteKeywordOnly(first_keyword, sql_upper) ==
    first_keyword \in READONLY_OPERATIONS \cup WRITE_OPERATIONS

ValidateLimitedWrite(first_keyword, sql_upper) ==
    IF first_keyword \notin READONLY_OPERATIONS \cup WRITE_OPERATIONS THEN FALSE
    ELSE ~\E dangerous \in DANGEROUS_OPERATIONS : Contains(dangerous, sql_upper)

\* validate_sql with FULL_ACCESS sent to the LIMITED_WRITE rules
ValidateSqlFullAsLimited(s, mode) ==
    LET sql_upper == Strip(Upper(s))
        first_keyword == ExtractFirstKeyword(sql_upper)
    IN  CASE mode = "READONLY" -> ValidateReadonly(first_keyword, sql_upper)
          [] mode = "LIMITED_WRITE" -> ValidateLimitedWrite(first_keyword, sql_upper)
          [] mode = "FULL_ACCESS" -> ValidateLimitedWrite(first_keyword, sql_upper)
          [] OTHER -> FALSE

ValidateSql(s, mode) ==
    LET sql_upper == Strip(Upper(s))
        first_keyword == ExtractFirstKeyword(sql_upper)
    IN  CASE mode = "READONLY" -> ValidateReadonly(first_keyword, sql_upper)
          [] mode = "LIMITED_WRITE" -> ValidateLimitedWrite(first_keyword, sql_upper)
          [] mode = "FULL_ACCESS" -> TRUE
          [] OTHER -> FALSE

\* The messages of get_error_message: the fixed text and the keyword it names.
\*   write_forbidden     "...模式下禁止写入操作: "
\*   dangerous_forbidden "...模式下禁止危险操作: "
\*   unsupported         "...模式下不支持的操作: "
\*   generic             "操作被安全策略禁止"
Message(mode, category, keyword) ==
    [mode |-> mode, category |-> category, keyword |-> keyword]

NoMessage == Message("", "", << >>)

\* get_error_message without the write case of READONLY
GetErrorMessageNoWriteCase(s, mode) ==
    LET sql_upper == Strip(Upper(s))
        first_keyword == ExtractFirstKeyword(sql_upper)
    IN  CASE mode = "READONLY" ->
               IF first_keyword \in DANGEROUS_OPERATIONS
               THEN Message("READONLY", "dangerous_forbidden", first_keyword)
               ELSE Message("READONLY", "unsupported", first_keyword)
          [] mode = "LIMITED_WRITE" ->
               IF first_keyword \in DANGEROUS_OPERATIONS
               THEN Message("LIMITED_WRITE", "dangerous_forbidden", first_keyword)
               ELSE Message("LIMITED_WRITE", "unsupported", first_keyword)
          [] OTHER -> Message("", "generic", << >>)

GetErrorMessage(s, mode) ==
    LET sql_upper == Strip(Upper(s))
        first_keyword == ExtractFirstKeyword(sql_upper)
    IN  CASE mode = "READONLY" ->
               IF first_keyword \in WRITE_OPERATIONS
               THEN Message("READONLY", "write_forbidden", first_keyword)
               ELSE IF first_keyword \in DANGEROUS_OPERATIONS
               THEN Message("READONLY", "dangerous_forbidden", first_keyword)
               ELSE Message("READONLY", "unsupported", first_keyword)
          [] mode = "LIMITED_WRITE" ->
               IF first_keyword \in DANGEROUS_OPERATIONS
               THEN Message("LIMITED_WRITE", "dangerous_forbidden", first_keyword)
               ELSE Message("LIMITED_WRITE", "unsupported", first_keyword)
          [] OTHER -> Message("", "generic", << >>)

-----------------------------------------------------------------------------
(* Statements enumerated by the model *)

RECURSIVE Join(_, _)
\* the words ws, each followed by its separator in ss
Join(ws, ss) ==
    IF ws = << >> THEN << >>
    ELSE Head(ws) \o Head(ss) \o Join(Tail(ws), Tail(ss))

SeqsUpTo(S, n) == UNION {[1..k -> S] : k \in 0..n}

\* the statements the specification gives as examples
ExInsert == <<"I","N","S","E","R","T"," ","I","N","T","O"," ","t"," ","V","A","L","U","E","S"," ","(","1",")">>
ExUpdate == <<"U","P","D","A","T","E"," ","t"," ","S","E","T"," ","c"," ","="," ","1">>
ExDrop == <<"D","R","O","P"," ","T","A","B","L","E"," ","t">>
ExSelectDrop == <<"S","E","L","E","C","T"," ","1",";"," ","D","R","O","P"," ","T","A","B","L","E"," ","x",";">>
Examples == {ExInsert, ExUpdate, ExDrop, ExSelectDrop}

\* a query whose common table expression inserts a row
ExWithInsert ==
    <<"W","I","T","H"," ","x"," ","A","S"," ","(","I","N","S","E","R","T"," ","I","N","T","O",
      " ","t"," ","V","A","L","U","E","S"," ","(","1",")"," ","R","E","T","U","R","N","I","N",
      "G"," ","*",")"," ","S","E","L","E","C","T"," ","*"," ","F","R","O","M"," ","x">>

\* how a classifier statement starts
Leads ==
    { << >>,
      kwSELECT \o <<" ">>,
      kwEXPLAIN \o <<" ">>,
      <<" ","s","e","l","e","c","t","\n">>,
      kwSELECT \o <<" ","x",";">>,
      kwSELECT \o <<" ">> \o kwUPDATE \o <<" ">> }

TailWords == {kwUPDATE, kwSET, kwDROP, kwTABLE, <<"x">>, <<";">>}
Seps == {<< >>, <<" ">>}

\* the empty statement and statements of white space only
BlankStatements == {<< >>, <<" ">>, <<" ", "\t", "\n">>}

\* statements given to the classifier
ValidatorStatements ==
    Examples \cup BlankStatements \cup
    UNION { { lead \o Join(ws, ss) : lead \in Leads, ss \in [1..Len(ws) -> Seps] }
            : ws \in SeqsUpTo(TailWords, MaxTail) }

MediatorWords ==
    {kwSELECT, kwSELECT \o <<"x">>, kwANALYZE, kwINSERT, kwDROP, <<"x">>}

\* statements given to the mediator: words separated by one space
MediatorStatements ==
    Examples \cup {ExWithInsert} \cup
    { Strip(Join(ws, [i \in 1..Len(ws) |-> <<" ">>])) : ws \in SeqsUpTo(MediatorWords, MaxWords) }

-----------------------------------------------------------------------------
(* Catalog statements of KingbaseDatabase, character for character *)

\* test_sql of _is_schema_allowed
test_sql ==
    <<"\n"," "," "," "," "," "," "," "," "," "," "," "," "," "," "," "," ","S","E","L","E","C",
      "T"," ","s","c","h","e","m","a","_","n","a","m","e"," ","\n"," "," "," "," "," "," "," ",
      " "," "," "," "," "," "," "," "," ","F","R","O","M"," ","i","n","f","o","r","m","a","t",
      "i","o","n","_","s","c","h","e","m","a",".","s","c","h","e","m","a","t","a"," ","\n"," ",
      " "," "," "," "," "," "," "," "," "," "," "," "," "," "," ","W","H","E","R","E"," ","s",
      "c","h","e","m","a","_","n","a","m","e"," ","="," ","%","s",";","\n"," "," "," "," "," ",
      " "," "," "," "," "," "," "," "," "," "," ">>

\* sql of get_all_tables
all_tables_sql ==
    <<"\n"," "," "," "," "," "," "," "," ","S","E","L","E","C","T"," ","\n"," "," "," "," "," ",
      " "," "," "," "," "," "," ","s","c","h","e","m","a","n","a","m","e",",","\n"," "," "," ",
      " "," "," "," "," "," "," "," "," ","t","a","b","l","e","n","a","m","e",",","\n"," "," ",
      " "," "," "," "," "," "," "," "," "," ","t","a","b","l","e","o","w","n","e","r",",","\n",
      " "," "," "," "," "," "," "," "," "," "," "," ","h","a","s","i","n","d","e","x","e","s",
      ",","\n"," "," "," "," "," "," "," "," "," "," "," "," ","h","a","s","r","u","l","e","s",
      ",","\n"," "," "," "," "," "," "," "," "," "," "," "," ","h","a","s","t","r","i","g","g",
      "e","r","s",",","\n"," "," "," "," "," "," "," "," "," "," "," "," ","r","o","w","s","e",
      "c","u","r","i","t","y","\n"," "," "," "," "," "," "," "," ","F","R","O","M"," ","p","g",
      "_","t","a","b","l","e","s"," ","\n"," "," "," "," "," "," "," "," ","W","H","E","R","E",
      " ","s","c","h","e","m","a","n","a","m","e"," ","="," ","%","s","\n"," "," "," "," "," ",
      " "," "," ","O","R","D","E","R"," ","B","Y"," ","t","a","b","l","e","n","a","m","e",";",
      "\n"," "," "," "," "," "," "," "," ">>

\* sql of get_available_schemas
available_schemas_sql ==
    <<"\n"," "," "," "," "," "," "," "," ","S","E","L","E","C","T"," ","s","c","h","e","m","a",
      "_","n","a","m","e"," ","a","s"," ","s","c","h","e","m","a","n","a","m","e","\n"," "," ",
      " "," "," "," "," "," ","F","R","O","M"," ","i","n","f","o","r","m","a","t","i","o","n",
      "_","s","c","h","e","m","a",".","s","c","h","e","m","a","t","a"," ","\n"," "," "," "," ",
      " "," "," "," ","W","H","E","R","E"," ","s","c","h","e","m","a","_","n","a","m","e"," ",
      "N","O","T"," ","I","N"," ","(","'","i","n","f","o","r","m","a","t","i","o","n","_","s",
      "c","h","e","m","a","'",","," ","'","p","g","_","c","a","t","a","l","o","g","'",","," ",
      "'","p","g","_","t","o","a","s","t","'",","," ","'","p","g","_","t","e","m","p","_","1",
      "'",","," ","'","p","g","_","t","o","a","s","t","_","t","e","m","p","_","1","'",")","\n",
      " "," "," "," "," "," "," "," ","O","R","D","E","R"," ","B","Y"," ","s","c","h","e","m",
      "a","_","n","a","m","e",";","\n"," "," "," "," "," "," "," "," ">>

\* sql_with_comments of get_table_structure
sql_with_comments ==
    <<"\n"," "," "," "," "," "," "," "," "," "," "," "," ","S","E","L","E","C","T"," ","\n"," ",
      " "," "," "," "," "," "," "," "," "," "," "," "," "," "," ","c",".","c","o","l","u","m",
      "n","_","n","a","m","e",",","\n"," "," "," "," "," "," "," "," "," "," "," "," "," "," ",
      " "," ","c",".","d","a","t","a","_","t","y","p","e",",","\n"," "," "," "," "," "," "," ",
      " "," "," "," "," "," "," "," "," ","c",".","c","h","a","r","a","c","t","e","r","_","m",
      "a","x","i","m","u","m","_","l","e","n","g","t","h",",","\n"," "," "," "," "," "," "," ",
      " "," "," "," "," "," "," "," "," ","c",".","n","u","m","e","r","i","c","_","p","r","e",
      "c","i","s","i","o","n",",","\n"," "," "," "," "," "," "," "," "," "," "," "," "," "," ",
      " "," ","c",".","n","u","m","e","r","i","c","_","s","c","a","l","e",",","\n"," "," "," ",
      " "," "," "," "," "," "," "," "," "," "," "," "," ","c",".","i","s","_","n","u","l","l",
      "a","b","l","e",",","\n"," "," "," "," "," "," "," "," "," "," "," "," "," "," "," "," ",
      "c",".","c","o","l","u","m","n","_","d","e","f","a","u","l","t",",","\n"," "," "," "," ",
      " "," "," "," "," "," "," "," "," "," "," "," ","c",".","o","r","d","i","n","a","l","_",
      "p","o","s","i","t","i","o","n",",","\n"," "," "," "," "," "," "," "," "," "," "," "," ",
      " "," "," "," ","C","A","S","E"," ","\n"," "," "," "," "," "," "," "," "," "," "," "," ",
      " "," "," "," "," "," "," "," ","W","H","E","N"," ","p","k",".","c","o","l","u","m","n",
      "_","n","a","m","e"," ","I","S"," ","N","O","T"," ","N","U","L","L"," ","T","H","E","N",
      " ","'","Y","E","S","'","\n"," "," "," "," "," "," "," "," "," "," "," "," "," "," "," ",
      " "," "," "," "," ","E","L","S","E"," ","'","N","O","'","\n"," "," "," "," "," "," "," ",
      " "," "," "," "," "," "," "," "," ","E","N","D"," ","a","s"," ","i","s","_","p","r","i",
      "m","a","r","y","_","k","e","y",",","\n"," "," "," "," "," "," "," "," "," "," "," "," ",
      " "," "," "," ","C","O","A","L","E","S","C","E","(","\n"," "," "," "," "," "," "," "," ",
      " "," "," "," "," "," "," "," "," "," "," "," ","(","S","E","L","E","C","T"," ","p","g",
      "_","c","a","t","a","l","o","g",".","c","o","l","_","d","e","s","c","r","i","p","t","i",
      "o","n","(","p","g","c",".","o","i","d",","," ","c",".","o","r","d","i","n","a","l","_",
      "p","o","s","i","t","i","o","n",")","\n"," "," "," "," "," "," "," "," "," "," "," "," ",
      " "," "," "," "," "," "," "," "," ","F","R","O","M"," ","p","g","_","c","a","t","a","l",
      "o","g",".","p","g","_","c","l","a","s","s"," ","p","g","c","\n"," "," "," "," "," "," ",
      " "," "," "," "," "," "," "," "," "," "," "," "," "," "," ","I","N","N","E","R"," ","J",
      "O","I","N"," ","p","g","_","c","a","t","a","l","o","g",".","p","g","_","n","a","m","e",
      "s","p","a","c","e"," ","p","g","n"," ","O","N"," ","p","g","n",".","o","i","d"," ","=",
      " ","p","g","c",".","r","e","l","n","a","m","e","s","p","a","c","e","\n"," "," "," "," ",
      " "," "," "," "," "," "," "," "," "," "," "," "," "," "," "," "," ","W","H","E","R","E",
      " ","p","g","c",".","r","e","l","n","a","m","e"," ","="," ","c",".","t","a","b","l","e",
      "_","n","a","m","e"," ","A","N","D"," ","p","g","n",".","n","s","p","n","a","m","e"," ",
      "="," ","c",".","t","a","b","l","e","_","s","c","h","e","m","a",")",",","\n"," "," "," ",
      " "," "," "," "," "," "," "," "," "," "," "," "," "," "," "," "," ","'","'","\n"," "," ",
      " "," "," "," "," "," "," "," "," "," "," "," "," "," ",")"," ","a","s"," ","c","o","l",
      "u","m","n","_","c","o","m","m","e","n","t","\n"," "," "," "," "," "," "," "," "," "," ",
      " "," ","F","R","O","M"," ","i","n","f","o","r","m","a","t","i","o","n","_","s","c","h",
      "e","m","a",".","c","o","l","u","m","n","s"," ","c","\n"," "," "," "," "," "," "," "," ",
      " "," "," "," ","L","E","F","T"," ","J","O","I","N"," ","(","\n"," "," "," "," "," "," ",
      " "," "," "," "," "," "," "," "," "," ","S","E","L","E","C","T"," ","k","u",".","c","o",
      "l","u","m","n","_","n","a","m","e","\n"," "," "," "," "," "," "," "," "," "," "," "," ",
      " "," "," "," ","F","R","O","M"," ","i","n","f","o","r","m","a","t","i","o","n","_","s",
      "c","h","e","m","a",".","t","a","b","l","e","_","c","o","n","s","t","r","a","i","n","t",
      "s"," ","t","c","\n"," "," "," "," "," "," "," "," "," "," "," "," "," "," "," "," ","I",
      "N","N","E","R"," ","J","O","I","N"," ","i","n","f","o","r","m","a","t","i","o","n","_",
      "s","c","h","e","m","a",".","k","e","y","_","c","o","l","u","m","n","_","u","s","a","g",
      "e"," ","k","u","\n"," "," "," "," "," "," "," "," "," "," "," "," "," "," "," "," "," ",
      " "," "," ","O","N"," ","t","c",".","c","o","n","s","t","r","a","i","n","t","_","n","a",
      "m","e"," ","="," ","k","u",".","c","o","n","s","t","r","a","i","n","t","_","n","a","m",
      "e","\n"," "," "," "," "," "," "," "," "," "," "," "," "," "," "," "," "," "," "," "," ",
      "A","N","D"," ","t","c",".","t","a","b","l","e","_","s","c","h","e","m","a"," ","="," ",
      "k","u",".","t","a","b","l","e","_","s","c","h","e","m","a","\n"," "," "," "," "," "," ",
      " "," "," "," "," "," "," "," "," "," ","W","H","E","R","E"," ","t","c",".","c","o","n",
      "s","t","r","a","i","n","t","_","t","y","p","e"," ","="," ","'","P","R","I","M","A","R",
      "Y"," ","K","E","Y","'","\n"," "," "," "," "," "," "," "," "," "," "," "," "," "," "," ",
      " "," "," "," "," ","A","N","D"," ","t","c",".","t","a","b","l","e","_","n","a","m","e",
      " ","="," ","%","s","\n"," "," "," "," "," "," "," "," "," "," "," "," "," "," "," "," ",
      " "," "," "," ","A","N","D"," ","t","c",".","t","a","b","l","e","_","s","c","h","e","m",
      "a"," ","="," ","%","s","\n"," "," "," "," "," "," "," "," "," "," "," "," ",")"," ","p",
      "k"," ","O","N"," ","c",".","c","o","l","u","m","n","_","n","a","m","e"," ","="," ","p",
      "k",".","c","o","l","u","m","n","_","n","a","m","e","\n"," "," "," "," "," "," "," "," ",
      " "," "," "," ","W","H","E","R","E"," ","c",".","t","a","b","l","e","_","n","a","m","e",
      " ","="," ","%","s","\n"," "," "," "," "," "," "," "," "," "," "," "," "," "," "," "," ",
      "A","N","D"," ","c",".","t","a","b","l","e","_","s","c","h","e","m","a"," ","="," ","%",
      "s","\n"," "," "," "," "," "," "," "," "," "," "," "," ","O","R","D","E","R"," ","B","Y",
      " ","c",".","o","r","d","i","n","a","l","_","p","o","s","i","t","i","o","n",";","\n"," ",
      " "," "," "," "," "," "," "," "," "," "," ">>

\* sql_basic of get_table_structure
sql_basic ==
    <<"\n"," "," "," "," "," "," "," "," ","S","E","L","E","C","T"," ","\n"," "," "," "," "," ",
      " "," "," "," "," "," "," ","c",".","c","o","l","u","m","n","_","n","a","m","e",",","\n",
      " "," "," "," "," "," "," "," "," "," "," "," ","c",".","d","a","t","a","_","t","y","p",
      "e",",","\n"," "," "," "," "," "," "," "," "," "," "," "," ","c",".","c","h","a","r","a",
      "c","t","e","r","_","m","a","x","i","m","u","m","_","l","e","n","g","t","h",",","\n"," ",
      " "," "," "," "," "," "," "," "," "," "," ","c",".","n","u","m","e","r","i","c","_","p",
      "r","e","c","i","s","i","o","n",",","\n"," "," "," "," "," "," "," "," "," "," "," "," ",
      "c",".","n","u","m","e","r","i","c","_","s","c","a","l","e",",","\n"," "," "," "," "," ",
      " "," "," "," "," "," "," ","c",".","i","s","_","n","u","l","l","a","b","l","e",",","\n",
      " "," "," "," "," "," "," "," "," "," "," "," ","c",".","c","o","l","u","m","n","_","d",
      "e","f","a","u","l","t",",","\n"," "," "," "," "," "," "," "," "," "," "," "," ","c",".",
      "o","r","d","i","n","a","l","_","p","o","s","i","t","i","o","n",",","\n"," "," "," "," ",
      " "," "," "," "," "," "," "," ","C","A","S","E"," ","\n"," "," "," "," "," "," "," "," ",
      " "," "," "," "," "," "," "," ","W","H","E","N"," ","p","k",".","c","o","l","u","m","n",
      "_","n","a","m","e"," ","I","S"," ","N","O","T"," ","N","U","L","L"," ","T","H","E","N",
      " ","'","Y","E","S","'","\n"," "," "," "," "," "," "," "," "," "," "," "," "," "," "," ",
      " ","E","L","S","E"," ","'","N","O","'","\n"," "," "," "," "," "," "," "," "," "," "," ",
      " ","E","N","D"," ","a","s"," ","i","s","_","p","r","i","m","a","r","y","_","k","e","y",
      ",","\n"," "," "," "," "," "," "," "," "," "," "," "," ","'","'"," ","a","s"," ","c","o",
      "l","u","m","n","_","c","o","m","m","e","n","t","\n"," "," "," "," "," "," "," "," ","F",
      "R","O","M"," ","i","n","f","o","r","m","a","t","i","o","n","_","s","c","h","e","m","a",
      ".","c","o","l","u","m","n","s"," ","c","\n"," "," "," "," "," "," "," "," ","L","E","F",
      "T"," ","J","O","I","N"," ","(","\n"," "," "," "," "," "," "," "," "," "," "," "," ","S",
      "E","L","E","C","T"," ","k","u",".","c","o","l","u","m","n","_","n","a","m","e","\n"," ",
      " "," "," "," "," "," "," "," "," "," "," ","F","R","O","M"," ","i","n","f","o","r","m",
      "a","t","i","o","n","_","s","c","h","e","m","a",".","t","a","b","l","e","_","c","o","n",
      "s","t","r","a","i","n","t","s"," ","t","c","\n"," "," "," "," "," "," "," "," "," "," ",
      " "," ","I","N","N","E","R"," ","J","O","I","N"," ","i","n","f","o","r","m","a","t","i",
      "o","n","_","s","c","h","e","m","a",".","k","e","y","_","c","o","l","u","m","n","_","u",
      "s","a","g","e"," ","k","u","\n"," "," "," "," "," "," "," "," "," "," "," "," "," "," ",
      " "," ","O","N"," ","t","c",".","c","o","n","s","t","r","a","i","n","t","_","n","a","m",
      "e"," ","="," ","k","u",".","c","o","n","s","t","r","a","i","n","t","_","n","a","m","e",
      "\n"," "," "," "," "," "," "," "," "," "," "," "," "," "," "," "," ","A","N","D"," ","t",
      "c",".","t","a","b","l","e","_","s","c","h","e","m","a"," ","="," ","k","u",".","t","a",
      "b","l","e","_","s","c","h","e","m","a","\n"," "," "," "," "," "," "," "," "," "," "," ",
      " ","W","H","E","R","E"," ","t","c",".","c","o","n","s","t","r","a","i","n","t","_","t",
      "y","p","e"," ","="," ","'","P","R","I","M","A","R","Y"," ","K","E","Y","'","\n"," "," ",
      " "," "," "," "," "," "," "," "," "," "," "," "," "," ","A","N","D"," ","t","c",".","t",
      "a","b","l","e","_","n","a","m","e"," ","="," ","%","s","\n"," "," "," "," "," "," "," ",
      " "," "," "," "," "," "," "," "," ","A","N","D"," ","t","c",".","t","a","b","l","e","_",
      "s","c","h","e","m","a"," ","="," ","%","s","\n"," "," "," "," "," "," "," "," ",")"," ",
      "p","k"," ","O","N"," ","c",".","c","o","l","u","m","n","_","n","a","m","e"," ","="," ",
      "p","k",".","c","o","l","u","m","n","_","n","a","m","e","\n"," "," "," "," "," "," "," ",
      " ","W","H","E","R","E"," ","c",".","t","a","b","l","e","_","n","a","m","e"," ","="," ",
      "%","s","\n"," "," "," "," "," "," "," "," "," "," "," "," ","A","N","D"," ","c",".","t",
      "a","b","l","e","_","s","c","h","e","m","a"," ","="," ","%","s","\n"," "," "," "," "," ",
      " "," "," ","O","R","D","E","R"," ","B","Y"," ","c",".","o","r","d","i","n","a","l","_",
      "p","o","s","i","t","i","o","n",";","\n"," "," "," "," "," "," "," "," ">>

\* sql of get_table_indexes
indexes_sql ==
    <<"\n"," "," "," "," "," "," "," "," "," "," "," "," ","S","E","L","E","C","T"," ","\n"," ",
      " "," "," "," "," "," "," "," "," "," "," "," "," "," "," ","i","n","d","e","x","n","a",
      "m","e",",","\n"," "," "," "," "," "," "," "," "," "," "," "," "," "," "," "," ","i","n",
      "d","e","x","d","e","f",",","\n"," "," "," "," "," "," "," "," "," "," "," "," "," "," ",
      " "," ","C","A","S","E"," ","\n"," "," "," "," "," "," "," "," "," "," "," "," "," "," ",
      " "," "," "," "," "," ","W","H","E","N"," ","i","n","d","e","x","d","e","f"," ","L","I",
      "K","E"," ","'","%","U","N","I","Q","U","E","%","'"," ","T","H","E","N"," ","'","Y","E",
      "S","'","\n"," "," "," "," "," "," "," "," "," "," "," "," "," "," "," "," "," "," "," ",
      " ","E","L","S","E"," ","'","N","O","'","\n"," "," "," "," "," "," "," "," "," "," "," ",
      " "," "," "," "," ","E","N","D"," ","a","s"," ","i","s","_","u","n","i","q","u","e","\n",
      " "," "," "," "," "," "," "," "," "," "," "," ","F","R","O","M"," ","p","g","_","i","n",
      "d","e","x","e","s"," ","\n"," "," "," "," "," "," "," "," "," "," "," "," ","W","H","E",
      "R","E"," ","t","a","b","l","e","n","a","m","e"," ","="," ","%","s"," ","\n"," "," "," ",
      " "," "," "," "," "," "," "," "," "," "," "," "," ","A","N","D"," ","s","c","h","e","m",
      "a","n","a","m","e"," ","="," ","%","s","\n"," "," "," "," "," "," "," "," "," "," "," ",
      " ","O","R","D","E","R"," ","B","Y"," ","i","n","d","e","x","n","a","m","e",";","\n"," ",
      " "," "," "," "," "," "," "," "," "," "," ">>

\* sql of get_table_constraints
constraints_sql ==
    <<"\n"," "," "," "," "," "," "," "," "," "," "," "," ","S","E","L","E","C","T"," ","\n"," ",
      " "," "," "," "," "," "," "," "," "," "," "," "," "," "," ","t","c",".","c","o","n","s",
      "t","r","a","i","n","t","_","n","a","m","e",",","\n"," "," "," "," "," "," "," "," "," ",
      " "," "," "," "," "," "," ","t","c",".","c","o","n","s","t","r","a","i","n","t","_","t",
      "y","p","e",",","\n"," "," "," "," "," "," "," "," "," "," "," "," "," "," "," "," ","k",
      "c","u",".","c","o","l","u","m","n","_","n","a","m","e",",","\n"," "," "," "," "," "," ",
      " "," "," "," "," "," "," "," "," "," ","C","A","S","E"," ","\n"," "," "," "," "," "," ",
      " "," "," "," "," "," "," "," "," "," "," "," "," "," ","W","H","E","N"," ","t","c",".",
      "c","o","n","s","t","r","a","i","n","t","_","t","y","p","e"," ","="," ","'","F","O","R",
      "E","I","G","N"," ","K","E","Y","'"," ","T","H","E","N","\n"," "," "," "," "," "," "," ",
      " "," "," "," "," "," "," "," "," "," "," "," "," "," "," "," "," ","c","c","u",".","t",
      "a","b","l","e","_","s","c","h","e","m","a","|","|","'",".","'","|","|","c","c","u",".",
      "t","a","b","l","e","_","n","a","m","e","|","|","'",".","'","|","|","c","c","u",".","c",
      "o","l","u","m","n","_","n","a","m","e","\n"," "," "," "," "," "," "," "," "," "," "," ",
      " "," "," "," "," "," "," "," "," ","E","L","S","E"," ","N","U","L","L","\n"," "," "," ",
      " "," "," "," "," "," "," "," "," "," "," "," "," ","E","N","D"," ","a","s"," ","f","o",
      "r","e","i","g","n","_","k","e","y","_","r","e","f","e","r","e","n","c","e","s","\n"," ",
      " "," "," "," "," "," "," "," "," "," "," ","F","R","O","M"," ","i","n","f","o","r","m",
      "a","t","i","o","n","_","s","c","h","e","m","a",".","t","a","b","l","e","_","c","o","n",
      "s","t","r","a","i","n","t","s"," ","t","c","\n"," "," "," "," "," "," "," "," "," "," ",
      " "," ","L","E","F","T"," ","J","O","I","N"," ","i","n","f","o","r","m","a","t","i","o",
      "n","_","s","c","h","e","m","a",".","k","e","y","_","c","o","l","u","m","n","_","u","s",
      "a","g","e"," ","k","c","u","\n"," "," "," "," "," "," "," "," "," "," "," "," "," "," ",
      " "," ","O","N"," ","t","c",".","c","o","n","s","t","r","a","i","n","t","_","n","a","m",
      "e"," ","="," ","k","c","u",".","c","o","n","s","t","r","a","i","n","t","_","n","a","m",
      "e","\n"," "," "," "," "," "," "," "," "," "," "," "," "," "," "," "," ","A","N","D"," ",
      "t","c",".","t","a","b","l","e","_","s","c","h","e","m","a"," ","="," ","k","c","u",".",
      "t","a","b","l","e","_","s","c","h","e","m","a","\n"," "," "," "," "," "," "," "," "," ",
      " "," "," ","L","E","F","T"," ","J","O","I","N"," ","i","n","f","o","r","m","a","t","i",
      "o","n","_","s","c","h","e","m","a",".","c","o","n","s","t","r","a","i","n","t","_","c",
      "o","l","u","m","n","_","u","s","a","g","e"," ","c","c","u","\n"," "," "," "," "," "," ",
      " "," "," "," "," "," "," "," "," "," ","O","N"," ","c","c","u",".","c","o","n","s","t",
      "r","a","i","n","t","_","n","a","m","e"," ","="," ","t","c",".","c","o","n","s","t","r",
      "a","i","n","t","_","n","a","m","e","\n"," "," "," "," "," "," "," "," "," "," "," "," ",
      " "," "," "," ","A","N","D"," ","c","c","u",".","t","a","b","l","e","_","s","c","h","e",
      "m","a"," ","="," ","t","c",".","t","a","b","l","e","_","s","c","h","e","m","a","\n"," ",
      " "," "," "," "," "," "," "," "," "," "," ","W","H","E","R","E"," ","t","c",".","t","a",
      "b","l","e","_","n","a","m","e"," ","="," ","%","s","\n"," "," "," "," "," "," "," "," ",
      " "," "," "," "," "," "," "," ","A","N","D"," ","t","c",".","t","a","b","l","e","_","s",
      "c","h","e","m","a"," ","="," ","%","s","\n"," "," "," "," "," "," "," "," "," "," "," ",
      " ","O","R","D","E","R"," ","B","Y"," ","t","c",".","c","o","n","s","t","r","a","i","n",
      "t","_","t","y","p","e",","," ","t","c",".","c","o","n","s","t","r","a","i","n","t","_",
      "n","a","m","e",";","\n"," "," "," "," "," "," "," "," "," "," "," "," ">>

\* the statement of test_connection
test_connection_sql ==
    <<"S","E","L","E","C","T"," ","1"," ","a","s"," ","t","e","s","t","_","c","o","n","n","e",
      "c","t","i","o","n",";">>

-----------------------------------------------------------------------------
(* The database, as the mediator sees it *)

\* The database operations of one query, in the order the code issues them.
\* A database behaviour names the operation that fails with psycopg2.Error
\* ("none": no operation fails) and the number of rows of the result (also
\* cur.rowcount of a statement that returns no rows).
DbStages ==
    {"connect", "set_default_ro", "set_txn_ro", "setup_commit", "execute", "fetchall", "commit"}

DbBehaviours ==
    {[fail |-> f, rows |-> 0] : f \in DbStages} \cup
    {[fail |-> "none", rows |-> n] : n \in 0..MaxRows}

DbOk == [fail |-> "none", rows |-> 0]

\* cur.fetchall(): the rows in database order
DbRows(d) == [i \in 1..d.rows |-> i]

\* what is issued on the connection at each stage
Event(stage) == IF stage = "setup_commit" THEN "commit" ELSE stage

\* index of the first operation of the plan that fails, 0 when none does
FailIndex(plan, d) ==
    LET hit == {i \in 1..Len(plan) : plan[i] = d.fail}
    IN  IF hit = {} THEN 0 ELSE CHOOSE i \in hit : \A j \in hit : i <= j

-----------------------------------------------------------------------------
(* Values returned and errors raised *)

NoResult ==
    [kind |-> "none", rows |-> << >>, affected |-> 0, flag |-> FALSE, message |-> NoMessage,
     text |-> "", about |-> ""]
RowsResult(rows) == [NoResult EXCEPT !.kind = "rows", !.rows = rows]
\* [{"affected_rows": affected_rows, "status": "success"}]
StatusResult(n) == [NoResult EXCEPT !.kind = "status", !.affected = n]
BoolResult(b) == [NoResult EXCEPT !.kind = "bool", !.flag = b]
MessageResult(m) == [NoResult EXCEPT !.kind = "message", !.message = m]
\* [TextContent(type="text", text=...)]: which text of handle_call_tool it is,
\* and the error the text describes (str(e)), "" when it describes none
TextResult(which, about) == [NoResult EXCEPT !.kind = "text", !.text = which, !.about = about]

NoDisplay == [shape |-> "", schemas |-> {}]

NoError ==
    [type |-> "", text |-> "", reason |-> NoMessage, stage |-> "", display |-> NoDisplay]
\* ValueError(f"SQL操作被安全策略禁止: {error_msg}")
PolicyError(error_msg) ==
    [type |-> "ValueError", text |-> "forbidden_by_policy", reason |-> error_msg,
     stage |-> "", display |-> NoDisplay]
\* ValueError("系统查询必须是只读操作")
SafeQueryError ==
    [type |-> "ValueError", text |-> "system_query_must_be_readonly", reason |-> NoMessage,
     stage |-> "", display |-> NoDisplay]
\* ValueError(f"不允许访问模式: {schema}，允许的模式: {allowed_schemas}")
SchemaError(display) ==
    [type |-> "ValueError", text |-> "schema_not_allowed", reason |-> NoMessage,
     stage |-> "", display |-> display]
\* psycopg2.Error raised by the database at a stage
DbError(stage) ==
    [type |-> "psycopg2.Error", text |-> "", reason |-> NoMessage,
     stage |-> stage, display |-> NoDisplay]

Outcome(res, err, sess, warn) ==
    [result |-> res, raised |-> err, sessions |-> sess, warnings |-> warn]

-----------------------------------------------------------------------------
(* KingbaseDatabase *)

\* config.is_readonly_mode()
IsReadonlyMode(mode) == mode = "READONLY"
\* config.is_all_schemas_allowed()
IsAllSchemasAllowed(policy) == policy = "all"
\* config.is_auto_discover_schemas()
IsAutoDiscoverSchemas(policy) == policy = "auto"

\* get_connection without the read-only settings
SetupPlanWithoutSettings(mode) == <<"connect", "setup_commit">>

\* get_connection up to the yield: connect, the read-only settings, commit
SetupPlan(mode) ==
    <<"connect">>
    \o (IF IsReadonlyMode(mode) THEN <<"set_default_ro", "set_txn_ro">> ELSE << >>)
    \o <<"setup_commit">>

\* the statements the mediator issues on its own account
CatalogStatements ==
    {test_sql, all_tables_sql, available_schemas_sql, sql_with_comments, sql_basic,
     indexes_sql, constraints_sql, test_connection_sql}

\* the branch of execute_query taken on the leading keyword instead of the prefix
IsRetrievalByKeyword(s) ==
    ExtractFirstKeyword(Strip(Upper(s))) \in {kwSELECT, kwWITH, kwSHOW, kwDESCRIBE, kwEXPLAIN}

\* sql.upper().strip().startswith(('SELECT', 'WITH', 'SHOW', 'DESCRIBE', 'EXPLAIN'))
IsRetrieval(s) ==
    LET sql_upper == Strip(Upper(s))
    IN  \E prefix \in {kwSELECT, kwWITH, kwSHOW, kwDESCRIBE, kwEXPLAIN} :
            StartsWith(sql_upper, prefix)

\* the test of the branch on the catalog statements, which are fixed: computed once
CatalogRetrieval == [q \in CatalogStatements |-> IsRetrieval(q)]

\* the branch of execute_query for statement s
TakesFetchBranch(s) ==
    IF s \in CatalogStatements THEN CatalogRetrieval[s] ELSE IsRetrieval(s)

\* the body of the with block of execute_query
StatementPlan(s) ==
    <<"execute">> \o (IF TakesFetchBranch(s) THEN <<"fetchall">> ELSE <<"commit">>)

\* an operation issued on a connection, and whether it succeeded
Issued(stage, ok) == [op |-> Event(stage), ok |-> ok]

\* get_connection without the finally clause: closed only after a clean run
GetConnectionNoFinally(mode, body, d) ==
    LET plan == SetupPlan(mode) \o body
        k == FailIndex(plan, d)
        issued == IF k = 0 THEN plan ELSE SubSeq(plan, 1, k)
        events == [i \in 1..Len(issued) |-> Issued(issued[i], i # k)]
    IN  IF k = 0 THEN <<events \o <<Issued("close", TRUE)>> >> ELSE <<events>>

\* get_connection around a body: one entry per psycopg2.connect call, holding
\* the operations issued in order, the failing one included; the finally
\* clause closes the session when conn was assigned
GetConnection(mode, body, d) ==
    LET plan == SetupPlan(mode) \o body
        k == FailIndex(plan, d)
        issued == IF k = 0 THEN plan ELSE SubSeq(plan, 1, k)
        events == [i \in 1..Len(issued) |-> Issued(issued[i], i # k)]
    IN  IF k = 1 THEN <<events>>
        ELSE <<events \o <<Issued("close", TRUE)>> >>

\* validate_sql on the catalog statements, which are fixed: computed once
CatalogDecision ==
    [q \in CatalogStatements |-> [m \in SecurityMode |-> ValidateSql(q, m)]]

\* self.sql_validator.validate_sql(sql, mode)
Validate(s, mode) ==
    IF s \in CatalogStatements THEN CatalogDecision[s][mode] ELSE ValidateSql(s, mode)

\* the slice taken one row too long
TruncateOffByOne(rows, n) == IF Len(rows) > n THEN SubSeq(rows, 1, n + 1) ELSE rows

\* results[:max_result_rows] when len(results) > max_result_rows
Truncate(rows, n) == IF Len(rows) > n THEN SubSeq(rows, 1, n) ELSE rows

\* execute_query with the connection acquired before the statement is classified
ExecuteQueryConnectFirst(s, mode, n, d) ==
    LET plan == SetupPlan(mode) \o StatementPlan(s)
        k == FailIndex(plan, d)
        sess == GetConnection(mode, StatementPlan(s), d)
    IN  IF ~Validate(s, mode)
        THEN Outcome(NoResult, PolicyError(GetErrorMessage(s, mode)),
                     GetConnection(mode, << >>, d), << >>)
        ELSE IF k # 0 THEN Outcome(NoResult, DbError(plan[k]), sess, << >>)
        ELSE IF TakesFetchBranch(s)
        THEN Outcome(RowsResult(Truncate(DbRows(d), n)), NoError, sess,
                     IF Len(DbRows(d)) > n THEN <<"truncated">> ELSE << >>)
        ELSE Outcome(StatusResult(d.rows), NoError, sess, << >>)

ExecuteQuery(s, mode, n, d) ==
    IF ~Validate(s, mode)
    THEN Outcome(NoResult, PolicyError(GetErrorMessage(s, mode)), << >>, << >>)
    ELSE LET plan == SetupPlan(mode) \o StatementPlan(s)
             k == FailIndex(plan, d)
             sess == GetConnection(mode, StatementPlan(s), d)
         IN  IF k # 0 THEN Outcome(NoResult, DbError(plan[k]), sess, << >>)
             ELSE IF TakesFetchBranch(s)
             THEN Outcome(RowsResult(Truncate(DbRows(d), n)), NoError, sess,
                          IF Len(DbRows(d)) > n THEN <<"truncated">> ELSE << >>)
             ELSE Outcome(StatusResult(d.rows), NoError, sess, << >>)

\* execute_safe_query running the statement itself once the read-only check
\* has passed, without execute_query's check under the configured mode
ExecuteSafeQueryOwnExecution(s, mode, n, d) ==
    IF ~Validate(s, "READONLY")
    THEN Outcome(NoResult, SafeQueryError, << >>, << >>)
    ELSE LET plan == SetupPlan(mode) \o StatementPlan(s)
             k == FailIndex(plan, d)
             sess == GetConnection(mode, StatementPlan(s), d)
         IN  IF k # 0 THEN Outcome(NoResult, DbError(plan[k]), sess, << >>)
             ELSE IF TakesFetchBranch(s)
             THEN Outcome(RowsResult(Truncate(DbRows(d), n)), NoError, sess,
                          IF Len(DbRows(d)) > n THEN <<"truncated">> ELSE << >>)
             ELSE Outcome(StatusResult(d.rows), NoError, sess, << >>)

\* execute_safe_query running an accepted statement on a session configured
\* read-only whatever the configured mode is
ExecuteSafeQueryReadonlySession(s, mode, n, d) ==
    IF ~Validate(s, "READONLY")
    THEN Outcome(NoResult, SafeQueryError, << >>, << >>)
    ELSE IF ~Validate(s, mode) THEN ExecuteQuery(s, mode, n, d)
    ELSE ExecuteQuery(s, "READONLY", n, d)

\* execute_safe_query classifying under the configured mode
ExecuteSafeQueryConfiguredMode(s, mode, n, d) ==
    IF ~Validate(s, mode)
    THEN Outcome(NoResult, SafeQueryError, << >>, << >>)
    ELSE ExecuteQuery(s, mode, n, d)

ExecuteSafeQuery(s, mode, n, d) ==
    IF ~Validate(s, "READONLY")
    THEN Outcome(NoResult, SafeQueryError, << >>, << >>)
    ELSE ExecuteQuery(s, mode, n, d)

\* _is_schema_allowed without the try/except around the catalog query
IsSchemaAllowedPropagates(sch, policy, allowed, mode, n, d) ==
    IF IsAllSchemasAllowed(policy) THEN Outcome(BoolResult(TRUE), NoError, << >>, << >>)
    ELSE IF IsAutoDiscoverSchemas(policy)
    THEN LET r == ExecuteSafeQuery(test_sql, mode, n, d)
         IN  IF r.raised.type # ""
             THEN Outcome(NoResult, r.raised, r.sessions, r.warnings)
             ELSE Outcome(BoolResult(Len(r.result.rows) > 0), NoError, r.sessions, r.warnings)
    ELSE Outcome(BoolResult(sch \in allowed), NoError, << >>, << >>)

\* the try block of _is_schema_allowed around its query, whose outcome is r:
\* len(result) > 0, and False when the query raised
GateAnswer(r) ==
    IF r.raised.type # ""
    THEN Outcome(BoolResult(FALSE), NoError, r.sessions, r.warnings)
    ELSE Outcome(BoolResult(Len(r.result.rows) > 0), NoError, r.sessions, r.warnings)

\* _is_schema_allowed: the decision, and the sessions and warnings of its query
IsSchemaAllowed(sch, policy, allowed, mode, n, d) ==
    IF IsAllSchemasAllowed(policy) THEN Outcome(BoolResult(TRUE), NoError, << >>, << >>)
    ELSE IF IsAutoDiscoverSchemas(policy)
    THEN GateAnswer(ExecuteSafeQuery(test_sql, mode, n, d))
    ELSE Outcome(BoolResult(sch \in allowed), NoError, << >>, << >>)

\* _get_allowed_schemas_display
GetAllowedSchemasDisplay(policy, allowed) ==
    IF IsAllSchemasAllowed(policy) THEN [shape |-> "*", schemas |-> {}]
    ELSE IF IsAutoDiscoverSchemas(policy) THEN [shape |-> "auto", schemas |-> {}]
    ELSE [shape |-> "list", schemas |-> allowed]

\* "if not self._is_schema_allowed(schema): raise ValueError(...)" before the
\* rest of an operation: gate is the outcome of the gate, body that of the rest
BehindGate(policy, allowed, gate, body) ==
    IF ~gate.result.flag
    THEN Outcome(NoResult, SchemaError(GetAllowedSchemasDisplay(policy, allowed)),
                 gate.sessions, gate.warnings)
    ELSE Outcome(body.result, body.raised, gate.sessions \o body.sessions,
                 gate.warnings \o body.warnings)

\* "try: return self.execute_safe_query(...) except Exception: logger.warning(...);
\* return []" around a query whose outcome is r
EmptyOnError(r, warning) ==
    IF r.raised.type # ""
    THEN Outcome(RowsResult(<< >>), NoError, r.sessions, r.warnings \o <<warning>>)
    ELSE Outcome(r.result, NoError, r.sessions, r.warnings)

\* the query returned normally with at least one row
HasRows(r) == r.raised.type = "" /\ r.result.rows # << >>

\* the two queries of get_table_structure: the rows of the first when it has
\* any, else the outcome of the basic query
StructureQueries(first, basic) ==
    IF HasRows(first)
    THEN Outcome(first.result, NoError, first.sessions, first.warnings)
    ELSE Outcome(basic.result, basic.raised, first.sessions \o basic.sessions,
                 first.warnings
                   \o (IF first.raised.type # "" THEN <<"comments_failed">> ELSE << >>)
                   \o basic.warnings)

\* the try block of test_connection around its query, whose outcome is r
ConnectionAnswer(r) ==
    IF r.raised.type # ""
    THEN Outcome(BoolResult(FALSE), NoError, r.sessions, r.warnings \o <<"test_failed">>)
    ELSE Outcome(BoolResult(Len(r.result.rows) > 0), NoError, r.sessions, r.warnings)

\* get_all_tables answering a failed query with the empty result
GetAllTablesSwallows(sch, policy, allowed, mode, n, dGate, dQuery) ==
    LET gate == IsSchemaAllowed(sch, policy, allowed, mode, n, dGate)
    IN  IF ~gate.result.flag
        THEN Outcome(NoResult, SchemaError(GetAllowedSchemasDisplay(policy, allowed)),
                     gate.sessions, gate.warnings)
        ELSE LET r == ExecuteSafeQuery(all_tables_sql, mode, n, dQuery)
             IN  IF r.raised.type # ""
                 THEN Outcome(RowsResult(<< >>), NoError, gate.sessions \o r.sessions,
                              gate.warnings \o r.warnings)
                 ELSE Outcome(r.result, NoError, gate.sessions \o r.sessions,
                              gate.warnings \o r.warnings)

GetAllTables(sch, policy, allowed, mode, n, dGate, dQuery) ==
    BehindGate(policy, allowed, IsSchemaAllowed(sch, policy, allowed, mode, n, dGate),
               ExecuteSafeQuery(all_tables_sql, mode, n, dQuery))

\* get_available_schemas
GetAvailableSchemas(mode, n, d) == ExecuteSafeQuery(available_schemas_sql, mode, n, d)

\* get_table_structure running its queries without asking the schema gate
GetTableStructureUngated(sch, policy, allowed, mode, n, dGate, dFirst, dBasic) ==
    StructureQueries(ExecuteSafeQuery(sql_with_comments, mode, n, dFirst),
                     ExecuteSafeQuery(sql_basic, mode, n, dBasic))

\* get_table_structure: the gate, the query with comments and, when that one
\* fails or returns no row, the basic query; dGate, dFirst and dBasic are the
\* behaviours of the database for the three queries
GetTableStructure(sch, policy, allowed, mode, n, dGate, dFirst, dBasic) ==
    BehindGate(policy, allowed, IsSchemaAllowed(sch, policy, allowed, mode, n, dGate),
               StructureQueries(ExecuteSafeQuery(sql_with_comments, mode, n, dFirst),
                                ExecuteSafeQuery(sql_basic, mode, n, dBasic)))

\* get_table_indexes with the error of its query propagated
GetTableIndexesPropagates(sch, policy, allowed, mode, n, dGate, dQuery) ==
    BehindGate(policy, allowed, IsSchemaAllowed(sch, policy, allowed, mode, n, dGate),
               ExecuteSafeQuery(indexes_sql, mode, n, dQuery))

\* get_table_indexes: the gate outside the try block, the query inside it
GetTableIndexes(sch, policy, allowed, mode, n, dGate, dQuery) ==
    BehindGate(policy, allowed, IsSchemaAllowed(sch, policy, allowed, mode, n, dGate),
               EmptyOnError(ExecuteSafeQuery(indexes_sql, mode, n, dQuery), "indexes_failed"))

\* get_table_constraints: the gate outside the try block, the query inside it
GetTableConstraints(sch, policy, allowed, mode, n, dGate, dQuery) ==
    BehindGate(policy, allowed, IsSchemaAllowed(sch, policy, allowed, mode, n, dGate),
               EmptyOnError(ExecuteSafeQuery(constraints_sql, mode, n, dQuery),
                            "constraints_failed"))

\* test_connection; the database answers "SELECT 1 as test_connection" with
\* rows whose test_connection field is 1
TestConnection(mode, n, d) ==
    ConnectionAnswer(ExecuteSafeQuery(test_connection_sql, mode, n, d))

-----------------------------------------------------------------------------
(* handle_call_tool (src/main.py) *)

\* str(e) of an error of the mediator, as far as the texts distinguish it
ErrorText(e) == IF e.text # "" THEN e.text ELSE e.type

\* the arguments of a tool call: whether table_name is given, the schema and
\* the format ("" when absent), and the statement when sql is given
NoArguments ==
    [table_name |-> FALSE, schema |-> "", format |-> "", has_sql |-> FALSE, sql |-> << >>]

\* no tool call is being handled
NoCall == [tool |-> "", arguments |-> NoArguments, files |-> ""]

\* arguments.get("schema", "public")
SchemaOf(args) == IF args.schema = "" THEN "public" ELSE args.schema
\* arguments.get("format", "markdown")
FormatOf(args) == IF args.format = "" THEN "markdown" ELSE args.format

\* what the three lookups of describe_table and generate_table_doc produced
Lookups(err, structure, sess, warn) ==
    [raised |-> err, structure |-> structure, sessions |-> sess, warnings |-> warn]

\* the three lookups in the order of the calls, up to the first that raises;
\* st, ix and cs are the outcomes of the three
FirstError(st, ix, cs) ==
    IF st.raised.type # "" THEN Lookups(st.raised, << >>, st.sessions, st.warnings)
    ELSE IF ix.raised.type # ""
    THEN Lookups(ix.raised, << >>, st.sessions \o ix.sessions, st.warnings \o ix.warnings)
    ELSE Lookups(cs.raised, IF cs.raised.type # "" THEN << >> ELSE st.result.rows,
                 st.sessions \o ix.sessions \o cs.sessions,
                 st.warnings \o ix.warnings \o cs.warnings)

\* get_table_structure, get_table_indexes and get_table_constraints; ds holds
\* the behaviours of the database for the gate and the queries of each:
\* <<gate, first, basic, gate, query, gate, query>>
TableLookups(sch, policy, allowed, mode, n, ds) ==
    FirstError(GetTableStructure(sch, policy, allowed, mode, n, ds[1], ds[2], ds[3]),
               GetTableIndexes(sch, policy, allowed, mode, n, ds[4], ds[5]),
               GetTableConstraints(sch, policy, allowed, mode, n, ds[6], ds[7]))

\* the outcome of writing the document: fs is "saved", "write_failed" (open or
\* write raises) or "prepare_failed" (the generator or os.makedirs raises)
SaveDocument(fs, saved, not_saved, failed, sess, warn) ==
    CASE fs = "prepare_failed" -> Outcome(TextResult(failed, "OSError"), NoError, sess, warn)
      [] fs = "write_failed" -> Outcome(TextResult(not_saved, "OSError"), NoError, sess, warn)
      [] OTHER -> Outcome(TextResult(saved, ""), NoError, sess, warn)

\* a text in place of the error the operation raised, whose outcome is r
FailureText(which, r) ==
    Outcome(TextResult(which, ErrorText(r.raised)), NoError, r.sessions, r.warnings)

\* a text for what the operation returned
AnswerText(which, r) == Outcome(TextResult(which, ""), NoError, r.sessions, r.warnings)

\* a text that needs no operation of the mediator
PlainText(which) == Outcome(TextResult(which, ""), NoError, << >>, << >>)

\* test_connection: r is the outcome of db.test_connection()
ConnectionText(r) ==
    AnswerText(IF r.result.flag THEN "connection_ok" ELSE "connection_failed", r)

\* list_tables: r is the outcome of db.get_all_tables(schema)
TableListText(r) ==
    IF r.raised.type # "" THEN r
    ELSE AnswerText(IF r.result.rows = << >> THEN "no_tables" ELSE "table_list", r)

\* describe_table: r is the outcome of the three lookups
TableStructureText(r) ==
    IF r.raised.type # "" THEN Outcome(NoResult, r.raised, r.sessions, r.warnings)
    ELSE AnswerText(IF r.structure = << >> THEN "table_not_found" ELSE "table_structure", r)

\* generate_table_doc: r is the outcome of the three lookups
TableDocText(args, fs, r) ==
    IF r.raised.type # "" THEN FailureText("doc_error", r)
    ELSE IF r.structure = << >> THEN AnswerText("table_not_found", r)
    ELSE IF FormatOf(args) \notin {"markdown", "json", "sql"}
    THEN AnswerText("unsupported_format", r)
    ELSE SaveDocument(fs, "doc_saved", "doc_not_saved", "doc_error", r.sessions, r.warnings)

\* generate_database_overview: r is the outcome of db.get_all_tables(schema)
OverviewText(fs, r) ==
    IF r.raised.type # "" THEN FailureText("overview_error", r)
    ELSE SaveDocument(fs, "overview_saved", "overview_not_saved", "overview_error",
                      r.sessions, r.warnings)

\* execute_query: r is the outcome of db.execute_query(sql)
QueryText(args, r) ==
    IF r.raised.type # "" THEN FailureText("sql_failed", r)
    ELSE IF r.result.kind = "rows" /\ r.result.rows = << >> THEN AnswerText("no_result", r)
    ELSE AnswerText(IF IsRetrieval(args.sql) THEN "query_result" ELSE "operation_result", r)

\* list_schemas: r is the outcome of db.get_available_schemas()
SchemaListText(r) ==
    IF r.raised.type # "" THEN FailureText("schemas_failed", r)
    ELSE AnswerText(IF r.result.rows = << >> THEN "no_schemas" ELSE "schema_list", r)

\* the body of the try block of handle_call_tool: the text returned, or the
\* error that reaches the outer except clause
CallTool(name, args, ds, fs, policy, allowed, mode, n) ==
    CASE name = "test_connection" -> ConnectionText(TestConnection(mode, n, ds[1]))
      [] name = "get_security_info" -> PlainText("security_info")
      [] name = "list_tables" ->
           TableListText(GetAllTables(SchemaOf(args), policy, allowed, mode, n, ds[1], ds[2]))
      [] name = "describe_table" ->
           IF ~args.table_name THEN PlainText("missing_table_name")
           ELSE TableStructureText(TableLookups(SchemaOf(args), policy, allowed, mode, n, ds))
      [] name = "generate_table_doc" ->
           IF ~args.table_name THEN PlainText("missing_table_name")
           ELSE TableDocText(args, fs,
                             TableLookups(SchemaOf(args), policy, allowed, mode, n, ds))
      [] name = "generate_database_overview" ->
           OverviewText(fs, GetAllTables(SchemaOf(args), policy, allowed, mode, n,
                                         ds[1], ds[2]))
      [] name = "execute_query" ->
           IF ~args.has_sql THEN PlainText("missing_sql")
           ELSE QueryText(args, ExecuteQuery(args.sql, mode, n, ds[1]))
      [] name = "list_schemas" -> SchemaListText(GetAvailableSchemas(mode, n, ds[1]))
      [] OTHER -> PlainText("unknown_tool")

\* handle_call_tool without its outer except clause
HandleCallToolUnguarded(name, args, ds, fs, policy, allowed, mode, n) ==
    CallTool(name, args, ds, fs, policy, allowed, mode, n)

\* the outer except clause: logger.error, and a text in place of the error
OuterExcept(r) ==
    IF r.raised.type # ""
    THEN Outcome(TextResult("tool_failed", ErrorText(r.raised)), NoError,
                 r.sessions, r.warnings \o <<"tool_failed">>)
    ELSE r

\* handle_call_tool
HandleCallTool(name, args, ds, fs, policy, allowed, mode, n) ==
    OuterExcept(CallTool(name, args, ds, fs, policy, allowed, mode, n))

-----------------------------------------------------------------------------
(* Configurations and inputs *)

\* the shapes of the schema policy with the configured set of each
SchemaPolicies == {<<"all", {}>>, <<"auto", {}>>, <<"list", {"public"}>>}

\* the configured row ceilings
Ceilings == {1, 2}

SchemaNames == {"public", "PUBLIC", "hr"}

\* the database behaviours drawn for a query that is issued only under cond
DbChoices(cond) == IF cond THEN DbBehaviours ELSE {DbOk}

Idle ==
    /\ pc = "idle"
    /\ op = ""
    /\ schema = ""
    /\ db = << >>
    /\ result = NoResult
    /\ raised = NoError
    /\ sessions = << >>
    /\ warnings = << >>
    /\ call = NoCall

\* the state records the call and its outcome, which the caller receives
Finish(name, s, sch, ds, o) ==
    /\ pc' = (IF name = "" THEN "idle" ELSE "done")
    /\ op' = name
    /\ sql' = s
    /\ schema' = sch
    /\ db' = ds
    /\ result' = o.result
    /\ raised' = o.raised
    /\ sessions' = o.sessions
    /\ warnings' = o.warnings
    /\ call' = NoCall
    /\ UNCHANGED config

\* the state records the tool call and what handle_call_tool gave the server
FinishTool(name, args, ds, fs, o) ==
    /\ pc' = "done"
    /\ op' = "handle_call_tool"
    /\ sql' = args.sql
    /\ schema' = args.schema
    /\ db' = ds
    /\ result' = o.result
    /\ raised' = o.raised
    /\ sessions' = o.sessions
    /\ warnings' = o.warnings
    /\ call' = [tool |-> name, arguments |-> args, files |-> fs]
    /\ UNCHANGED config

-----------------------------------------------------------------------------
(* The mediator: one action per operation *)

Init ==
    /\ security_mode \in SecurityMode
    /\ max_result_rows \in Ceilings
    /\ \E p \in SchemaPolicies : schema_policy = p[1] /\ allowed_schemas = p[2]
    /\ sql = << >>
    /\ Idle

ExecuteQueryCall ==
    /\ pc = "idle"
    /\ \E s \in MediatorStatements, d \in DbBehaviours :
          Finish("execute_query", s, "", <<d>>,
                 ExecuteQuery(s, security_mode, max_result_rows, d))

ExecuteSafeQueryCall ==
    /\ pc = "idle"
    /\ \E s \in MediatorStatements, d \in DbBehaviours :
          Finish("execute_safe_query", s, "", <<d>>,
                 ExecuteSafeQuery(s, security_mode, max_result_rows, d))

IsSchemaAllowedCall ==
    /\ pc = "idle"
    /\ \E sch \in SchemaNames, d \in DbChoices(IsAutoDiscoverSchemas(schema_policy)) :
          Finish("_is_schema_allowed", << >>, sch, <<d>>,
                 IsSchemaAllowed(sch, schema_policy, allowed_schemas,
                                 security_mode, max_result_rows, d))

GetAllTablesCall ==
    /\ pc = "idle"
    /\ \E sch \in SchemaNames, dGate \in DbChoices(IsAutoDiscoverSchemas(schema_policy)),
          dQuery \in DbBehaviours :
          Finish("get_all_tables", << >>, sch, <<dGate, dQuery>>,
                 GetAllTables(sch, schema_policy, allowed_schemas,
                              security_mode, max_result_rows, dGate, dQuery))

\* the schema gate lets the schema through under the database behaviour dGate
GatePasses(sch, dGate) ==
    IsSchemaAllowed(sch, schema_policy, allowed_schemas,
                    security_mode, max_result_rows, dGate).result.flag

\* the query with comments of get_table_structure fails or returns no row
NeedsBasicQuery(dFirst) ==
    ~HasRows(ExecuteSafeQuery(sql_with_comments, security_mode, max_result_rows, dFirst))

GetAvailableSchemasCall ==
    /\ pc = "idle"
    /\ \E d \in DbBehaviours :
          Finish("get_available_schemas", << >>, "", <<d>>,
                 GetAvailableSchemas(security_mode, max_result_rows, d))

GetTableStructureCall ==
    /\ pc = "idle"
    /\ \E sch \in SchemaNames, dGate \in DbChoices(IsAutoDiscoverSchemas(schema_policy)) :
       \E dFirst \in DbChoices(GatePasses(sch, dGate)) :
       \E dBasic \in DbChoices(GatePasses(sch, dGate) /\ NeedsBasicQuery(dFirst)) :
          Finish("get_table_structure", << >>, sch, <<dGate, dFirst, dBasic>>,
                 GetTableStructure(sch, schema_policy, allowed_schemas,
                                   security_mode, max_result_rows, dGate, dFirst, dBasic))

GetTableIndexesCall ==
    /\ pc = "idle"
    /\ \E sch \in SchemaNames, dGate \in DbChoices(IsAutoDiscoverSchemas(schema_policy)) :
       \E dQuery \in DbChoices(GatePasses(sch, dGate)) :
          Finish("get_table_indexes", << >>, sch, <<dGate, dQuery>>,
                 GetTableIndexes(sch, schema_policy, allowed_schemas,
                                 security_mode, max_result_rows, dGate, dQuery))

GetTableConstraintsCall ==
    /\ pc = "idle"
    /\ \E sch \in SchemaNames, dGate \in DbChoices(IsAutoDiscoverSchemas(schema_policy)) :
       \E dQuery \in DbChoices(GatePasses(sch, dGate)) :
          Finish("get_table_constraints", << >>, sch, <<dGate, dQuery>>,
                 GetTableConstraints(sch, schema_policy, allowed_schemas,
                                     security_mode, max_result_rows, dGate, dQuery))

TestConnectionCall ==
    /\ pc = "idle"
    /\ \E d \in DbBehaviours :
          Finish("test_connection", << >>, "", <<d>>,
                 TestConnection(security_mode, max_result_rows, d))

\* the server takes the next call
Return ==
    /\ pc = "done"
    /\ Finish("", << >>, "", << >>, Outcome(NoResult, NoError, << >>, << >>))

Next ==
    \/ ExecuteQueryCall
    \/ ExecuteSafeQueryCall
    \/ IsSchemaAllowedCall
    \/ GetAllTablesCall
    \/ GetAvailableSchemasCall
    \/ GetTableStructureCall
    \/ GetTableIndexesCall
    \/ GetTableConstraintsCall
    \/ TestConnectionCall
    \/ Return

Spec == Init /\ [][Next]_vars

-----------------------------------------------------------------------------
(* The classifier alone: the statement and the mode are drawn at the start *)

InitValidator ==
    /\ security_mode \in SecurityMode
    /\ max_result_rows = 1
    /\ schema_policy = "all"
    /\ allowed_schemas = {}
    /\ sql \in ValidatorStatements
    /\ Idle

ValidateSqlCall ==
    /\ pc = "idle"
    /\ Finish("validate_sql", sql, "", << >>,
              Outcome(BoolResult(ValidateSql(sql, security_mode)), NoError, << >>, << >>))

GetErrorMessageCall ==
    /\ pc = "idle"
    /\ Finish("get_error_message", sql, "", << >>,
              Outcome(MessageResult(GetErrorMessage(sql, security_mode)), NoError, << >>, << >>))

NextValidator ==
    \/ ValidateSqlCall
    \/ GetErrorMessageCall

SpecValidator == InitValidator /\ [][NextValidator]_vars

-----------------------------------------------------------------------------
(* The tool handler: one action for handle_call_tool *)

ToolNames ==
    {"test_connection", "get_security_info", "list_tables", "describe_table",
     "generate_table_doc", "generate_database_overview", "execute_query", "list_schemas",
     "drop_database"}

\* the schema argument: absent, or a schema outside the configured list
ToolSchemas == {"", "hr"}
\* the format argument: absent, a supported format, an unsupported format
ToolFormats == {"", "sql", "xml"}
ToolStatements == Examples

\* the arguments a call of the tool is made with: none (the required one is
\* missing), or the ones the tool reads
ToolArguments(name) ==
    CASE name \in {"list_tables", "generate_database_overview"} ->
           {[NoArguments EXCEPT !.schema = sch] : sch \in ToolSchemas}
      [] name = "describe_table" ->
           {NoArguments} \cup
           {[NoArguments EXCEPT !.table_name = TRUE, !.schema = sch] : sch \in ToolSchemas}
      [] name = "generate_table_doc" ->
           {NoArguments} \cup
           {[NoArguments EXCEPT !.table_name = TRUE, !.schema = sch, !.format = f] :
               sch \in ToolSchemas, f \in ToolFormats}
      [] name = "execute_query" ->
           {NoArguments} \cup
           {[NoArguments EXCEPT !.has_sql = TRUE, !.sql = s] : s \in ToolStatements}
      [] OTHER -> {NoArguments}

\* the database during a tool call: no row, one row, no connection, a
\* statement the database rejects
ToolDb ==
    {DbOk, [fail |-> "none", rows |-> 1],
     [fail |-> "connect", rows |-> 0], [fail |-> "execute", rows |-> 0]}

ToolChoices(cond) == IF cond THEN ToolDb ELSE {DbOk}

\* get_table_structure returns normally
StructureReturns(sch, d1, d2, d3) ==
    GetTableStructure(sch, schema_policy, allowed_schemas, security_mode, max_result_rows,
                      d1, d2, d3).raised.type = ""

\* the behaviours of the database for get_table_indexes and
\* get_table_constraints, which are called when go holds
LookupTail(sch, go) ==
    LET auto == IsAutoDiscoverSchemas(schema_policy)
    IN  UNION { UNION { UNION {
            {<<d4, d5, d6, d7>> :
                d7 \in ToolChoices(go /\ GatePasses(sch, d4) /\ GatePasses(sch, d6))} :
            d6 \in ToolChoices(go /\ auto /\ GatePasses(sch, d4)) } :
            d5 \in ToolChoices(go /\ GatePasses(sch, d4)) } :
            d4 \in ToolChoices(go /\ auto) }

\* the behaviours of the database for the three lookups of a table
LookupBehaviours(sch) ==
    LET auto == IsAutoDiscoverSchemas(schema_policy)
    IN  UNION { UNION { UNION {
            {<<d1, d2, d3>> \o t : t \in LookupTail(sch, StructureReturns(sch, d1, d2, d3))} :
            d3 \in ToolChoices(GatePasses(sch, d1) /\ NeedsBasicQuery(d2)) } :
            d2 \in ToolChoices(GatePasses(sch, d1)) } :
            d1 \in ToolChoices(auto) }

\* the behaviours of the database for the gate and the query of get_all_tables
ListingBehaviours(sch) ==
    UNION { {<<d1, d2>> : d2 \in ToolChoices(GatePasses(sch, d1))} :
            d1 \in ToolChoices(IsAutoDiscoverSchemas(schema_policy)) }

\* the behaviours of the database for the queries the tool call issues
ToolBehaviours(name, args) ==
    CASE name \in {"test_connection", "list_schemas"} -> {<<d>> : d \in ToolDb}
      [] name \in {"list_tables", "generate_database_overview"} ->
           ListingBehaviours(SchemaOf(args))
      [] name \in {"describe_table", "generate_table_doc"} /\ args.table_name ->
           LookupBehaviours(SchemaOf(args))
      [] name = "execute_query" /\ args.has_sql ->
           {<<d>> : d \in ToolChoices(Validate(args.sql, security_mode))}
      [] OTHER -> {<< >>}

\* the file system when the call comes to write its document
FileChoices(name, args, ds) ==
    IF HandleCallTool(name, args, ds, "saved", schema_policy, allowed_schemas,
                      security_mode, max_result_rows).result.text
           \in {"doc_saved", "overview_saved"}
    THEN {"saved", "write_failed", "prepare_failed"}
    ELSE {"saved"}

InitTools ==
    /\ security_mode \in SecurityMode
    /\ max_result_rows = 1
    /\ \E p \in SchemaPolicies : schema_policy = p[1] /\ allowed_schemas = p[2]
    /\ sql = << >>
    /\ Idle

HandleCallToolCall ==
    /\ pc = "idle"
    /\ \E name \in ToolNames : \E args \in ToolArguments(name) :
       \E ds \in ToolBehaviours(name, args) : \E fs \in FileChoices(name, args, ds) :
          FinishTool(name, args, ds, fs,
                     HandleCallTool(name, args, ds, fs, schema_policy, allowed_schemas,
                                    security_mode, max_result_rows))

NextTools ==
    \/ HandleCallToolCall
    \/ Return

SpecTools == InitTools /\ [][NextTools]_vars

-----------------------------------------------------------------------------
(* Vocabulary of the properties *)

\* kw is the first whitespace-delimited token of the upper-cased, trimmed text
LeadingKeywordIs(s, kw) ==
    \E i \in 1..Len(s) :
        /\ \A j \in 1..(i - 1) : IsSpace(s[j])
        /\ HasAt(Upper(s), i, kw)
        /\ (i + Len(kw) > Len(s) \/ IsSpace(s[i + Len(kw)]))

LeadingKeywordIn(s, keywords) == \E kw \in keywords : LeadingKeywordIs(s, kw)

\* the connections of the call that were opened, and those that were closed
OpenedSessions(sess) == {i \in DOMAIN sess : sess[i][1].op = "connect" /\ sess[i][1].ok}
ClosedSessions(sess) == {i \in DOMAIN sess : \E j \in DOMAIN sess[i] : sess[i][j].op = "close"}

\* the caller's statement was issued on some connection of the call
StatementIssued(sess) == \E i \in DOMAIN sess : \E j \in DOMAIN sess[i] : sess[i][j].op = "execute"

\* w occurs in u at position i as a whole word
WholeWordAt(u, i, w) ==
    /\ HasAt(u, i, w)
    /\ (i = 1 \/ ~IsWordChar(u[i - 1]))
    /\ (i + Len(w) > Len(u) \/ ~IsWordChar(u[i + Len(w)]))

\* w occurs in the upper-cased text as a whole word
ContainsWord(s, w) == \E i \in 1..Len(s) : WholeWordAt(Upper(s), i, w)

\* u[i..j-1] is white space, at least one character
Gap(u, i, j) == i < j /\ \A k \in i..(j - 1) : IsSpace(u[k])

\* the words a and b occur in the upper-cased text as a whole-word sequence
PhraseOccurs(s, a, b) ==
    LET u == Upper(s)
    IN  \E i \in 1..Len(u) :
            /\ WholeWordAt(u, i, a)
            /\ \E j \in (i + Len(a) + 1)..Len(u) :
                  Gap(u, i + Len(a), j) /\ WholeWordAt(u, j, b)

\* UPDATE <ident> SET occurs in the upper-cased text as a whole-word sequence
UpdateSetOccurs(s) ==
    LET u == Upper(s)
    IN  \E i \in 1..Len(u) :
            /\ WholeWordAt(u, i, kwUPDATE)
            /\ \E j \in (i + 7)..Len(u), k \in (i + 8)..Len(u) :
                  /\ j < k
                  /\ Gap(u, i + 6, j)
                  /\ \A m \in j..(k - 1) : IsWordChar(u[m])
                  /\ \E n \in (k + 1)..Len(u) : Gap(u, k, n) /\ WholeWordAt(u, n, kwSET)

\* one of the seven phrase patterns occurs in the text
SevenPhrases ==
    {<<kwDROP, kwTABLE>>, <<kwTRUNCATE, kwTABLE>>, <<kwDELETE, kwFROM>>,
     <<kwINSERT, kwINTO>>, <<kwCREATE, kwTABLE>>, <<kwALTER, kwTABLE>>}
PhrasePatternOccurs(s) ==
    UpdateSetOccurs(s) \/ \E ph \in SevenPhrases : PhraseOccurs(s, ph[1], ph[2])

\* a keyword of the set occurs in the upper-cased text as a substring
KeywordOccurs(s, keywords) == \E kw \in keywords : Contains(kw, Upper(s))

Min(a, b) == IF a <= b THEN a ELSE b

\* the operations issued for a retrieval query under the mode
RetrievalStages(mode) ==
    {"connect", "setup_commit", "execute", "fetchall"} \cup
    (IF mode = "READONLY" THEN {"set_default_ro", "set_txn_ro"} ELSE {})

Called(name) == pc = "done" /\ op = name

-----------------------------------------------------------------------------
(* Properties *)

\* C1: when the classifier denies the statement under the configured mode,
\* execute_query raises the policy error carrying get_error_message's reason,
\* makes no connection attempt and returns nothing.
C1_DenialBeforeConnection ==
    (Called("execute_query") /\ ~ValidateSql(sql, security_mode)) =>
        /\ raised = PolicyError(GetErrorMessage(sql, security_mode))
        /\ sessions = << >>
        /\ result = NoResult

C1_Witness ==
    /\ Called("execute_query")
    /\ security_mode = "LIMITED_WRITE"
    /\ sql = ExDrop
    /\ raised.text = "forbidden_by_policy"
    /\ db[1].fail = "none"

\* C2: after execute_query returns or raises, every connection it opened has
\* been closed and it closed nothing else, on the paths permit+success,
\* permit+database error (failed session set-up included) and denial.
C2_NoSessionLeftOpen ==
    Called("execute_query") =>
        /\ OpenedSessions(sessions) = ClosedSessions(sessions)
        /\ \A i \in DOMAIN sessions :
              Cardinality({j \in DOMAIN sessions[i] : sessions[i][j].op = "close"}) <= 1

C2_Witness ==
    /\ Called("execute_query")
    /\ raised = DbError("set_txn_ro")
    /\ OpenedSessions(sessions) = {1}
    /\ ClosedSessions(sessions) = {1}

\* C3: a statement whose leading keyword is a dangerous operation is denied by
\* validate_sql under READONLY and LIMITED_WRITE and permitted under FULL_ACCESS.
C3_DangerousLeadingKeyword ==
    (Called("validate_sql") /\ LeadingKeywordIn(sql, DANGEROUS_OPERATIONS)) =>
        (result.flag <=> security_mode = "FULL_ACCESS")

C3_Witness ==
    /\ Called("validate_sql")
    /\ LeadingKeywordIs(sql, kwDROP)
    /\ security_mode = "FULL_ACCESS"
    /\ result.flag

\* C4: under every configured mode, execute_safe_query rejects a statement whose
\* leading keyword is a write or dangerous operation, with no connection
\* attempt and the statement never issued.
C4_SafeQueryRejectsWrites ==
    (Called("execute_safe_query")
        /\ LeadingKeywordIn(sql, WRITE_OPERATIONS \cup DANGEROUS_OPERATIONS)) =>
        /\ raised = SafeQueryError
        /\ sessions = << >>
        /\ result = NoResult

C4_Witness ==
    /\ Called("execute_safe_query")
    /\ security_mode = "FULL_ACCESS"
    /\ sql = ExInsert
    /\ raised = SafeQueryError
    /\ db[1].fail = "none"

\* C5 as stated: under READONLY no statement that contains a write or
\* dangerous keyword as a whole word is permitted, whatever its leading keyword.
C5_AsStated ==
    (Called("validate_sql") /\ security_mode = "READONLY"
        /\ \E kw \in WRITE_OPERATIONS \cup DANGEROUS_OPERATIONS : ContainsWord(sql, kw)) =>
        ~result.flag

\* C5 amended: under READONLY no statement whose leading keyword is not SELECT
\* and that contains a write or dangerous keyword as a whole word is permitted.
C5_NonSelectConservative ==
    (Called("validate_sql") /\ security_mode = "READONLY"
        /\ ~LeadingKeywordIs(sql, kwSELECT)
        /\ \E kw \in WRITE_OPERATIONS \cup DANGEROUS_OPERATIONS : ContainsWord(sql, kw)) =>
        ~result.flag

C5_Witness ==
    /\ Called("validate_sql")
    /\ security_mode = "READONLY"
    /\ LeadingKeywordIs(sql, kwEXPLAIN)
    /\ ContainsWord(sql, kwUPDATE)
    /\ ~KeywordOccurs(sql, DANGEROUS_OPERATIONS)
    /\ ~result.flag

\* C6: under READONLY validate_sql permits exactly the statements led by SELECT
\* in which none of the seven phrase patterns occurs as a whole-word sequence,
\* and the statements led by another read-only keyword in which no write or
\* dangerous keyword occurs as a substring; a SELECT containing
\* '; DROP TABLE x;' is denied.
C6_ReadonlyDecision ==
    (Called("validate_sql") /\ security_mode = "READONLY") =>
        /\ result.flag <=>
              \/ LeadingKeywordIs(sql, kwSELECT) /\ ~PhrasePatternOccurs(sql)
              \/ /\ LeadingKeywordIn(sql, READONLY_OPERATIONS \ {kwSELECT})
                 /\ ~KeywordOccurs(sql, WRITE_OPERATIONS \cup DANGEROUS_OPERATIONS)
        /\ (LeadingKeywordIs(sql, kwSELECT)
              /\ Contains(<<";"," ","D","R","O","P"," ","T","A","B","L","E"," ","x",";">>, sql))
           => ~result.flag

C6_Witness ==
    /\ Called("validate_sql")
    /\ security_mode = "READONLY"
    /\ LeadingKeywordIs(sql, kwSELECT)
    /\ UpdateSetOccurs(sql)
    /\ ~\E ph \in SevenPhrases : PhraseOccurs(sql, ph[1], ph[2])
    /\ ~result.flag

\* C7: under LIMITED_WRITE validate_sql permits exactly the statements whose
\* leading keyword is a read-only or write operation and in whose upper-cased
\* text no dangerous keyword occurs as a substring; 'UPDATE t SET c = 1' is
\* permitted and 'DROP TABLE t' is denied.
C7_LimitedWriteDecision ==
    (Called("validate_sql") /\ security_mode = "LIMITED_WRITE") =>
        /\ result.flag <=>
              /\ LeadingKeywordIn(sql, READONLY_OPERATIONS \cup WRITE_OPERATIONS)
              /\ ~KeywordOccurs(sql, DANGEROUS_OPERATIONS)
        /\ sql = ExUpdate => result.flag
        /\ sql = ExDrop => ~result.flag

C7_Witness ==
    /\ Called("validate_sql")
    /\ security_mode = "LIMITED_WRITE"
    /\ LeadingKeywordIn(sql, READONLY_OPERATIONS \cup WRITE_OPERATIONS)
    /\ KeywordOccurs(sql, DANGEROUS_OPERATIONS)
    /\ ~\E kw \in DANGEROUS_OPERATIONS : ContainsWord(sql, kw)
    /\ ~result.flag

\* C8: a permitted retrieval statement that the database answers with M rows
\* under the row ceiling N returns without error the first min(M, N) rows in
\* database order and nothing else; when M > N the truncation warning is logged.
C8_RowCeiling ==
    (Called("execute_query")
        /\ LeadingKeywordIn(sql, {kwSELECT, kwWITH, kwSHOW, kwDESCRIBE, kwEXPLAIN})
        /\ ValidateSql(sql, security_mode)
        /\ db[1].fail = "none") =>
        /\ raised = NoError
        /\ result = RowsResult([i \in 1..Min(db[1].rows, max_result_rows) |-> i])
        /\ db[1].rows > max_result_rows => warnings = <<"truncated">>

C8_Witness ==
    /\ Called("execute_query")
    /\ LeadingKeywordIs(sql, kwSELECT)
    /\ db[1] = [fail |-> "none", rows |-> MaxRows]
    /\ max_result_rows < MaxRows
    /\ Len(result.rows) = max_result_rows
    /\ warnings = <<"truncated">>

\* the schema gate permits, as C9 states it
GateAllows ==
    \/ schema_policy = "all"
    \/ /\ schema_policy = "auto"
       /\ db[1].fail \notin RetrievalStages(security_mode)
       /\ db[1].rows >= 1
    \/ schema_policy = "list" /\ schema \in allowed_schemas

\* C9: _is_schema_allowed raises nothing and permits exactly when the policy is
\* allow-all, or auto-discover and the catalog query completes with at least
\* one row, or allow-list and the name is an exact member; get_all_tables
\* raises schema-not-allowed exactly when the gate denies: with allow-list
\* {"public"}, "hr" is refused and "public" passes.
C9_SchemaGate ==
    /\ Called("_is_schema_allowed") => (raised = NoError /\ result = BoolResult(GateAllows))
    /\ Called("get_all_tables") =>
          /\ ~GateAllows =>
                raised = SchemaError(GetAllowedSchemasDisplay(schema_policy, allowed_schemas))
          /\ GateAllows => raised.text # "schema_not_allowed"
          /\ (schema_policy = "list" /\ allowed_schemas = {"public"} /\ schema = "hr") =>
                raised = SchemaError([shape |-> "list", schemas |-> {"public"}])
          /\ (schema_policy = "list" /\ allowed_schemas = {"public"} /\ schema = "public") =>
                raised.text # "schema_not_allowed"

C9_Witness ==
    /\ Called("_is_schema_allowed")
    /\ schema_policy = "auto"
    /\ db[1].fail = "execute"
    /\ result = BoolResult(FALSE)
    /\ Len(sessions) = 1

\* C10: under READONLY execute_query denies a statement whose leading keyword
\* is INSERT or UPDATE with the forbidden-write reason naming that keyword.
C10_ReadonlyWriteReason ==
    \A kw \in WRITE_OPERATIONS :
        (Called("execute_query") /\ security_mode = "READONLY" /\ LeadingKeywordIs(sql, kw)) =>
            /\ raised = PolicyError(Message("READONLY", "write_forbidden", kw))
            /\ sessions = << >>

C10_Witness ==
    /\ Called("execute_query")
    /\ security_mode = "READONLY"
    /\ sql = ExInsert
    /\ raised.reason = Message("READONLY", "write_forbidden", kwINSERT)

\* the call was rejected on policy grounds: by execute_safe_query's own check
\* or by the classification of execute_query
PolicyRejected == raised.text \in {"system_query_must_be_readonly", "forbidden_by_policy"}

\* C11 as stated: whether execute_safe_query rejects a statement on policy
\* grounds is the same under the three configured modes and equals the denial
\* of validate_sql(statement, READONLY).
C11_AsStated ==
    Called("execute_safe_query") => (PolicyRejected <=> ~ValidateSql(sql, "READONLY"))

\* C11 amended: execute_safe_query accepts a statement exactly when
\* validate_sql permits it under READONLY and under the configured mode; what
\* READONLY denies is rejected with the read-only error before any connection,
\* what only the configured mode denies is rejected with execute_query's policy
\* error before any connection; under READONLY and FULL_ACCESS the decision
\* equals validate_sql(statement, READONLY).
C11_SafeQueryClassification ==
    Called("execute_safe_query") =>
        /\ PolicyRejected <=>
              ~(ValidateSql(sql, "READONLY") /\ ValidateSql(sql, security_mode))
        /\ ~ValidateSql(sql, "READONLY") => raised = SafeQueryError
        /\ (ValidateSql(sql, "READONLY") /\ ~ValidateSql(sql, security_mode)) =>
              raised = PolicyError(GetErrorMessage(sql, security_mode))
        /\ PolicyRejected => (sessions = << >> /\ result = NoResult)
        /\ security_mode \in {"READONLY", "FULL_ACCESS"} =>
              (PolicyRejected <=> ~ValidateSql(sql, "READONLY"))

C11_Witness ==
    /\ Called("execute_safe_query")
    /\ security_mode = "LIMITED_WRITE"
    /\ LeadingKeywordIs(sql, kwSELECT)
    /\ ValidateSql(sql, "READONLY")
    /\ raised.text = "forbidden_by_policy"
    /\ sessions = << >>

\* the statement is empty or consists of white space only
IsBlank(s) == \A i \in 1..Len(s) : IsSpace(s[i])

\* C13 as stated: an empty or whitespace-only statement is denied by
\* validate_sql under every security mode.
C13_AsStated ==
    (Called("validate_sql") /\ IsBlank(sql)) => ~result.flag

\* C13 amended: an empty or whitespace-only statement is denied by validate_sql
\* under READONLY and LIMITED_WRITE and permitted under FULL_ACCESS; its leading
\* keyword is empty, so the reason under the denying modes is the
\* unsupported-operation message naming an empty keyword.
C13_EmptyStatement ==
    /\ (Called("validate_sql") /\ IsBlank(sql)) =>
          (result.flag <=> security_mode = "FULL_ACCESS")
    /\ (Called("get_error_message") /\ IsBlank(sql) /\ security_mode # "FULL_ACCESS") =>
          result.message = Message(security_mode, "unsupported", << >>)

C13_Witness ==
    /\ Called("validate_sql")
    /\ sql = <<" ", "\t", "\n">>
    /\ security_mode = "LIMITED_WRITE"
    /\ ~result.flag

RetrievalKeywords == {kwSELECT, kwWITH, kwSHOW, kwDESCRIBE, kwEXPLAIN}

\* the upper-cased text, leading white space skipped, begins with kw
TextBeginsWith(s, kw) ==
    \E i \in 1..Len(s) :
        /\ \A j \in 1..(i - 1) : IsSpace(s[j])
        /\ HasAt(Upper(s), i, kw)

\* the operation was issued with success on a session of the call
IssuedOk(sess, name) ==
    \E i \in DOMAIN sess : \E j \in DOMAIN sess[i] : sess[i][j] = [op |-> name, ok |-> TRUE]

\* a commit succeeded after the caller's statement was executed, before the close
CommittedAfterStatement(sess) ==
    \E i \in DOMAIN sess : \E j, k \in DOMAIN sess[i] :
        /\ j < k
        /\ sess[i][j] = [op |-> "execute", ok |-> TRUE]
        /\ sess[i][k] = [op |-> "commit", ok |-> TRUE]
        /\ \A m \in DOMAIN sess[i] : sess[i][m].op = "close" => k < m

\* C14 as stated: a permitted statement the database accepts returns the row
\* sequence exactly when its leading keyword is one of SELECT, WITH, SHOW,
\* DESCRIBE, EXPLAIN, and otherwise commits and returns the status record.
C14_AsStated ==
    (Called("execute_query") /\ ValidateSql(sql, security_mode) /\ db[1].fail = "none") =>
        IF LeadingKeywordIn(sql, RetrievalKeywords)
        THEN result.kind = "rows"
        ELSE result = StatusResult(db[1].rows) /\ CommittedAfterStatement(sessions)

\* C14 amended: whatever the mode, a permitted statement the database accepts
\* returns the fetched row sequence exactly when its upper-cased, trimmed text
\* begins with one of SELECT, WITH, SHOW, DESCRIBE, EXPLAIN (a prefix of the
\* text, not the whitespace-delimited leading keyword); every other permitted
\* statement is committed and returns the single status record with the
\* affected-row count. Under READONLY and LIMITED_WRITE the prefix test and the
\* leading keyword agree on every permitted statement.
C14_OutcomeShape ==
    /\ (Called("execute_query") /\ ValidateSql(sql, security_mode) /\ db[1].fail = "none") =>
          IF \E kw \in RetrievalKeywords : TextBeginsWith(sql, kw)
          THEN /\ result.kind = "rows"
               /\ IssuedOk(sessions, "fetchall")
               /\ ~CommittedAfterStatement(sessions)
          ELSE /\ result = StatusResult(db[1].rows)
               /\ CommittedAfterStatement(sessions)
               /\ ~IssuedOk(sessions, "fetchall")
    /\ (Called("execute_query") /\ ValidateSql(sql, security_mode)
          /\ security_mode # "FULL_ACCESS") =>
          ((\E kw \in RetrievalKeywords : TextBeginsWith(sql, kw))
              <=> LeadingKeywordIn(sql, RetrievalKeywords))

C14_Witness ==
    /\ Called("execute_query")
    /\ security_mode = "FULL_ACCESS"
    /\ TextBeginsWith(sql, kwSELECT)
    /\ ~LeadingKeywordIn(sql, RetrievalKeywords)
    /\ result.kind = "rows"
    /\ IssuedOk(sessions, "fetchall")

\* both read-only settings succeeded, in order, before position j of the session
SettingsBefore(events, j) ==
    \E a, b \in DOMAIN events :
        /\ a < b /\ b < j
        /\ events[a] = [op |-> "set_default_ro", ok |-> TRUE]
        /\ events[b] = [op |-> "set_txn_ro", ok |-> TRUE]

\* one of the read-only settings was issued on the session and failed
SettingFailed(events) ==
    \E a \in DOMAIN events :
        events[a].op \in {"set_default_ro", "set_txn_ro"} /\ ~events[a].ok

\* C15: under READONLY, on every session an execute_query call acquires, the
\* caller's statement is issued only after the session-level and the
\* transaction-level read-only settings succeeded on that session; when a
\* setting fails the statement is never issued, the session is closed and the
\* database error is raised.
C15_ReadonlySettingsFirst ==
    (Called("execute_query") /\ security_mode = "READONLY") =>
        \A i \in DOMAIN sessions :
            /\ \A j \in DOMAIN sessions[i] :
                  sessions[i][j].op = "execute" => SettingsBefore(sessions[i], j)
            /\ SettingFailed(sessions[i]) =>
                  /\ ~\E j \in DOMAIN sessions[i] : sessions[i][j].op = "execute"
                  /\ sessions[i][Len(sessions[i])].op = "close"
                  /\ raised.type = "psycopg2.Error"
                  /\ result = NoResult

C15_Witness ==
    /\ Called("execute_query")
    /\ security_mode = "READONLY"
    /\ LeadingKeywordIs(sql, kwSELECT)
    /\ Len(sessions) = 1
    /\ SettingFailed(sessions[1])
    /\ raised = DbError("set_default_ro")
    /\ ~StatementIssued(sessions)
    /\ ClosedSessions(sessions) = {1}

TableScopedOperations ==
    {"get_all_tables", "get_table_structure", "get_table_indexes", "get_table_constraints"}

\* the session of a retrieval query that met database behaviour d
QuerySession(d) == GetConnection(security_mode, <<"execute", "fetchall">>, d)[1]

\* the display string of the active policy shape
PolicyDisplay ==
    CASE schema_policy = "all" -> [shape |-> "*", schemas |-> {}]
      [] schema_policy = "auto" -> [shape |-> "auto", schemas |-> {}]
      [] schema_policy = "list" -> [shape |-> "list", schemas |-> allowed_schemas]

\* C16: every table-scoped operation asks the schema gate first: under the
\* auto-discover policy the first session of the call is the one of the gate's
\* query; when the gate denies, the operation raises the schema-not-allowed
\* error carrying the display of the active policy shape, returns nothing and
\* opens no session besides the gate's, so its catalog query is never
\* executed; when the gate permits, no schema-not-allowed error is raised.
C16_GateFirst ==
    (pc = "done" /\ op \in TableScopedOperations) =>
        /\ schema_policy = "auto" =>
              (Len(sessions) >= 1 /\ sessions[1] = QuerySession(db[1]))
        /\ ~GateAllows =>
              /\ raised = SchemaError(PolicyDisplay)
              /\ result = NoResult
              /\ Len(sessions) = (IF schema_policy = "auto" THEN 1 ELSE 0)
        /\ GateAllows => raised.text # "schema_not_allowed"

C16_Witness ==
    /\ Called("get_table_structure")
    /\ schema_policy = "auto"
    /\ db[1] = [fail |-> "none", rows |-> 0]
    /\ raised = SchemaError([shape |-> "auto", schemas |-> {}])
    /\ Len(sessions) = 1
    /\ IssuedOk(sessions, "fetchall")

\* the keywords a mode accepts as the leading keyword of a statement
LeadingKeywordsOf(mode) ==
    CASE mode = "READONLY" -> READONLY_OPERATIONS
      [] mode = "LIMITED_WRITE" -> READONLY_OPERATIONS \cup WRITE_OPERATIONS
      [] OTHER -> {}

\* C17: for a statement validate_sql denies under READONLY or LIMITED_WRITE,
\* the reason of get_error_message names the mode, and its message reflects the
\* category of the operation that caused the denial: write-forbidden or
\* dangerous-forbidden for a leading write or dangerous keyword the mode does
\* not accept, unsupported for a leading keyword of no category, and, when the
\* leading keyword is one the mode accepts, so that an embedded write or
\* dangerous operation caused the denial, not the unsupported-operation message.
C17_ReasonReflectsCause ==
    (Called("get_error_message") /\ security_mode \in {"READONLY", "LIMITED_WRITE"}
        /\ ~ValidateSql(sql, security_mode)) =>
        /\ result.message.mode = security_mode
        /\ (LeadingKeywordIn(sql, WRITE_OPERATIONS) /\ security_mode = "READONLY") =>
              result.message.category = "write_forbidden"
        /\ LeadingKeywordIn(sql, DANGEROUS_OPERATIONS) =>
              result.message.category = "dangerous_forbidden"
        /\ LeadingKeywordIn(sql, LeadingKeywordsOf(security_mode)) =>
              result.message.category \in {"write_forbidden", "dangerous_forbidden"}

\* an operation was issued on a session of the call and failed
IssuedFailed(sess, name) ==
    \E i \in DOMAIN sess : \E j \in DOMAIN sess[i] : sess[i][j] = [op |-> name, ok |-> FALSE]

\* C18: when the schema gate permits, get_table_indexes and
\* get_table_constraints raise nothing: if their catalog query fails at the
\* connection, the session set-up, the execution or the fetch they return the
\* empty result and log a warning, otherwise they return the rows of the query
\* up to the ceiling; every session the call opened is closed, the one of the
\* failed query included. When the gate denies, the schema-not-allowed error
\* is raised and no empty result stands in for it.
C18_SupplementaryLookupsDegrade ==
    (pc = "done" /\ op \in {"get_table_indexes", "get_table_constraints"}) =>
        /\ OpenedSessions(sessions) = ClosedSessions(sessions)
        /\ GateAllows =>
              /\ raised = NoError
              /\ IF db[2].fail \in RetrievalStages(security_mode)
                 THEN /\ result = RowsResult(<< >>)
                      /\ IssuedFailed(sessions, Event(db[2].fail))
                      /\ warnings # << >>
                 ELSE result = RowsResult([i \in 1..Min(db[2].rows, max_result_rows) |-> i])
        /\ ~GateAllows => (raised.text = "schema_not_allowed" /\ result = NoResult)

C18_Witness ==
    /\ Called("get_table_constraints")
    /\ schema_policy = "list"
    /\ schema = "public"
    /\ db[2].fail = "execute"
    /\ raised = NoError
    /\ result = RowsResult(<< >>)
    /\ IssuedFailed(sessions, "execute")
    /\ ClosedSessions(sessions) = {1}

\* the operations the database is asked to perform for the caller's statement
StatementStages ==
    {"connect", "setup_commit", "execute"} \cup
    (IF security_mode = "READONLY" THEN {"set_default_ro", "set_txn_ro"} ELSE {}) \cup
    (IF \E kw \in RetrievalKeywords : TextBeginsWith(sql, kw) THEN {"fetchall"} ELSE {"commit"})

\* the k-th query of the call, a catalog query, meets a failing operation
CatalogQueryFails(k) == db[k].fail \in RetrievalStages(security_mode)

\* the call returned normally
ReturnedNormally == raised = NoError /\ result # NoResult

\* C19 as stated: in execute_query, execute_safe_query, get_all_tables,
\* get_available_schemas, get_table_structure, the schema gate and
\* test_connection, a failure of a query the operation issues is propagated to
\* the caller and never replaced by a normal return value.
C19_AsStated ==
    /\ (pc = "done" /\ op \in {"execute_query", "execute_safe_query"}
          /\ sessions # << >> /\ db[1].fail \in StatementStages) => ~ReturnedNormally
    /\ (pc = "done" /\ op \in {"execute_query", "execute_safe_query"}
          /\ ~ValidateSql(sql, security_mode)) => ~ReturnedNormally
    /\ (pc = "done" /\ op \in {"get_available_schemas", "test_connection"}
          /\ CatalogQueryFails(1)) => ~ReturnedNormally
    /\ (Called("_is_schema_allowed") /\ schema_policy = "auto" /\ CatalogQueryFails(1)) =>
          ~ReturnedNormally
    /\ (Called("get_all_tables") /\ GateAllows /\ CatalogQueryFails(2)) => ~ReturnedNormally
    /\ (Called("get_table_structure") /\ GateAllows
          /\ (CatalogQueryFails(2) \/ CatalogQueryFails(3))) => ~ReturnedNormally

\* C19 amended: execute_query, execute_safe_query, get_all_tables and
\* get_available_schemas raise the database error of a failed query they issue
\* and return nothing, and so does get_table_structure for its basic query.
\* Three operations besides index and constraint enumeration replace a failure
\* by a normal value: the schema gate and test_connection return False, and
\* get_table_structure answers a failure of its query with comments by running
\* the basic query and returning that one's rows.
C19_ErrorPropagation ==
    /\ (pc = "done" /\ op \in {"execute_query", "execute_safe_query"}
          /\ sessions # << >> /\ db[1].fail \in StatementStages) =>
          (raised = DbError(db[1].fail) /\ result = NoResult)
    /\ (pc = "done" /\ op \in {"execute_query", "execute_safe_query"}
          /\ ~ValidateSql(sql, security_mode)) =>
          (raised.type = "ValueError" /\ result = NoResult)
    /\ (Called("get_available_schemas") /\ CatalogQueryFails(1)) =>
          (raised = DbError(db[1].fail) /\ result = NoResult)
    /\ (Called("get_all_tables") /\ GateAllows /\ CatalogQueryFails(2)) =>
          (raised = DbError(db[2].fail) /\ result = NoResult)
    /\ (Called("get_table_structure") /\ GateAllows /\ CatalogQueryFails(2)) =>
          IF CatalogQueryFails(3)
          THEN raised = DbError(db[3].fail) /\ result = NoResult
          ELSE /\ raised = NoError
               /\ result = RowsResult([i \in 1..Min(db[3].rows, max_result_rows) |-> i])
    /\ (Called("get_table_structure") /\ GateAllows /\ ~CatalogQueryFails(2)
          /\ db[2].rows = 0 /\ CatalogQueryFails(3)) =>
          (raised = DbError(db[3].fail) /\ result = NoResult)
    /\ (Called("_is_schema_allowed") /\ schema_policy = "auto" /\ CatalogQueryFails(1)) =>
          (raised = NoError /\ result = BoolResult(FALSE))
    /\ (Called("test_connection") /\ CatalogQueryFails(1)) =>
          (raised = NoError /\ result = BoolResult(FALSE))

C19_Witness ==
    /\ Called("get_table_structure")
    /\ schema_policy = "list"
    /\ db[2].fail = "execute"
    /\ db[3] = [fail |-> "none", rows |-> 1]
    /\ raised = NoError
    /\ result = RowsResult(<<1>>)
    /\ IssuedFailed(sessions, "execute")
    /\ Len(sessions) = 2


-----------------------------------------------------------------------------
(* C20 *)

\* the texts handle_call_tool answers a failure with
FailureTexts == {"tool_failed", "doc_error", "overview_error", "sql_failed", "schemas_failed"}

\* the tool call reaches a mediator operation that takes the schema
ToolTakesSchema ==
    \/ call.tool \in {"list_tables", "generate_database_overview"}
    \/ call.tool \in {"describe_table", "generate_table_doc"} /\ call.arguments.table_name

\* the gate of the first such operation lets the schema of the call through
ToolGateAllows ==
    \/ schema_policy = "all"
    \/ schema_policy = "auto" /\ db[1].fail = "none" /\ db[1].rows >= 1
    \/ schema_policy = "list" /\ SchemaOf(call.arguments) \in allowed_schemas

\* the statement of an execute_query tool call is refused by the policy
ToolPolicyViolation ==
    /\ call.tool = "execute_query"
    /\ call.arguments.has_sql
    /\ ~ValidateSql(call.arguments.sql, security_mode)

\* the first query the tool call issues for its answer meets a connection
\* error or an execution error
ToolQueryFails ==
    \/ /\ call.tool = "execute_query" /\ call.arguments.has_sql
       /\ ValidateSql(call.arguments.sql, security_mode)
       /\ db[1].fail # "none"
    \/ call.tool = "list_schemas" /\ db[1].fail # "none"
    \/ /\ call.tool \in {"list_tables", "generate_database_overview"}
       /\ ToolGateAllows
       /\ db[2].fail # "none"

\* C20: whatever the tool name, the arguments and the error a mediator
\* operation raises, handle_call_tool raises nothing and returns a text; after
\* a policy violation, a refused schema, a connection error or an execution
\* error the text is one of the failure texts and carries that error, and no
\* connection is left open for the calls that follow.
C20_ToolCallNeverRaises ==
    Called("handle_call_tool") =>
        /\ raised = NoError
        /\ result.kind = "text"
        /\ result.text # ""
        /\ OpenedSessions(sessions) = ClosedSessions(sessions)
        /\ ToolPolicyViolation =>
              (result.text = "sql_failed" /\ result.about = "forbidden_by_policy")
        /\ (ToolTakesSchema /\ ~ToolGateAllows) =>
              (result.text \in FailureTexts /\ result.about = "schema_not_allowed")
        /\ ToolQueryFails =>
              (result.text \in FailureTexts /\ result.about = "psycopg2.Error")

C20_Witness ==
    /\ Called("handle_call_tool")
    /\ call.tool = "list_tables"
    /\ schema_policy = "all"
    /\ db[2].fail = "connect"
    /\ result = TextResult("tool_failed", "psycopg2.Error")
    /\ raised = NoError
    /\ \E i \in DOMAIN warnings : warnings[i] = "tool_failed"


-----------------------------------------------------------------------------
(* C21 *)

\* C21 as stated: every statement validate_sql permits under READONLY is
\* permitted under LIMITED_WRITE, and every statement permitted under
\* LIMITED_WRITE is permitted under FULL_ACCESS.
C21_AsStated ==
    Called("validate_sql") =>
        /\ (security_mode = "READONLY" /\ result.flag) => ValidateSql(sql, "LIMITED_WRITE")
        /\ (security_mode = "LIMITED_WRITE" /\ result.flag) => ValidateSql(sql, "FULL_ACCESS")

\* C21 amended: every statement validate_sql permits under READONLY or under
\* LIMITED_WRITE is permitted under FULL_ACCESS. A statement permitted under
\* READONLY whose leading keyword is not SELECT is permitted under
\* LIMITED_WRITE; one whose leading keyword is SELECT is permitted under
\* LIMITED_WRITE exactly when no dangerous keyword occurs in its upper-cased
\* text as a substring.
C21_ModeOrdering ==
    Called("validate_sql") =>
        /\ (security_mode \in {"READONLY", "LIMITED_WRITE"} /\ result.flag) =>
              ValidateSql(sql, "FULL_ACCESS")
        /\ (security_mode = "READONLY" /\ result.flag /\ ~LeadingKeywordIs(sql, kwSELECT)) =>
              ValidateSql(sql, "LIMITED_WRITE")
        /\ (security_mode = "READONLY" /\ result.flag /\ LeadingKeywordIs(sql, kwSELECT)) =>
              (ValidateSql(sql, "LIMITED_WRITE") <=> ~KeywordOccurs(sql, DANGEROUS_OPERATIONS))

C21_Witness ==
    /\ Called("validate_sql")
    /\ security_mode = "READONLY"
    /\ LeadingKeywordIs(sql, kwSELECT)
    /\ ContainsWord(sql, kwDROP)
    /\ result.flag
    /\ ~ValidateSql(sql, "LIMITED_WRITE")
    /\ ValidateSql(sql, "FULL_ACCESS")


-----------------------------------------------------------------------------
(* C22 *)

\* a read-only setting was issued on the session
SettingIssued(events) ==
    \E a \in DOMAIN events : events[a].op \in {"set_default_ro", "set_txn_ro"}

\* the session was configured read-only: both settings succeeded on it
ConfiguredReadonly(events) == SettingsBefore(events, Len(events) + 1)

\* the session came out of get_connection's set-up: its commit succeeded
SetUp(events) ==
    \E a \in DOMAIN events :
        /\ events[a] = [op |-> "commit", ok |-> TRUE]
        /\ \A b \in 1..(a - 1) : events[b].op # "execute"

\* C22: in every operation of the mediator, a session that came out of its
\* set-up was configured read-only exactly when the configured mode is
\* READONLY, and under the other modes no read-only setting is issued on any
\* session; so a statement execute_safe_query accepts under LIMITED_WRITE or
\* FULL_ACCESS is issued on a session that was not configured read-only.
C22_ReadonlySessionIffReadonlyMode ==
    pc = "done" =>
        /\ \A i \in DOMAIN sessions :
              /\ SetUp(sessions[i]) =>
                    (ConfiguredReadonly(sessions[i]) <=> security_mode = "READONLY")
              /\ SettingIssued(sessions[i]) => security_mode = "READONLY"
        /\ (Called("execute_safe_query") /\ security_mode # "READONLY") =>
              \A i \in DOMAIN sessions : \A j \in DOMAIN sessions[i] :
                  sessions[i][j].op = "execute" =>
                      /\ ~SettingIssued(sessions[i])
                      /\ ~ConfiguredReadonly(sessions[i])

C22_Witness ==
    /\ Called("execute_safe_query")
    /\ security_mode = "FULL_ACCESS"
    /\ raised = NoError
    /\ Len(sessions) = 1
    /\ IssuedOk(sessions, "execute")
    /\ SetUp(sessions[1])
    /\ ~SettingIssued(sessions[1])


-----------------------------------------------------------------------------
(* C23 *)

\* C23: whenever execute_query returns normally under LIMITED_WRITE or
\* FULL_ACCESS for a permitted statement in whose text INSERT or UPDATE occurs
\* as a word, a commit succeeded on the session after the statement was
\* executed and before the session was closed.
C23_WritesAreCommitted ==
    (Called("execute_query")
        /\ security_mode \in {"LIMITED_WRITE", "FULL_ACCESS"}
        /\ ValidateSql(sql, security_mode)
        /\ \E kw \in WRITE_OPERATIONS : ContainsWord(sql, kw)
        /\ ReturnedNormally) =>
        CommittedAfterStatement(sessions)

====
